---- MODULE Spec2Model ----
(***************************************************************************)
(* State-machine model of the conversational core of nlp-chatbot-engine:   *)
(*   - ContextManager  (src/nlp_chatbot_engine/memory/context_manager.py)  *)
(*   - IntentClassifier (src/nlp_chatbot_engine/intents/intent_classifier.py)*)
(*   - EntityExtractor (src/nlp_chatbot_engine/entities/entity_extractor.py)*)
(*   - ChatbotEngine   (src/nlp_chatbot_engine/core/engine.py)              *)
(* and of the chat service built around it:                                 *)
(*   - RateLimiter     (src/app/middleware/rate_limit.py)                   *)
(*   - SafetyFilter    (src/app/middleware/safety.py)                       *)
(*   - ShortTermMemory, LongTermMemory (src/app/memory)                     *)
(*   - the chat endpoint (src/app/main.py)                                  *)
(* Python dicts are modelled as functions whose DOMAIN is the set of keys   *)
(* present; where the code's behaviour depends on dict insertion order the  *)
(* order is kept beside the function as a sequence of keys.                 *)
(***************************************************************************)
EXTENDS Integers, Sequences, FiniteSets, TLC

VARIABLES
    contexts,         \* ContextManager.contexts : user -> (key -> value), defaultdict(dict)
    ctx_order,        \* insertion order of the keys of ContextManager.contexts
    timestamps,       \* ContextManager.timestamps : user -> time of last touch
    context_timeout,  \* ContextManager.context_timeout (0 stands for None/0: both falsy)
    now,              \* the wall clock read by datetime.now()
    last,             \* the call made last: its name, user, other arguments, return value
    rt,               \* history: the last update_context write to one watched (user, key)
    intents,          \* IntentClassifier.intents : the keys, in insertion order
    keywords,         \* IntentClassifier.keywords : intent -> list, in insertion order
    patterns,         \* IntentClassifier.patterns : intent -> list, in insertion order
    trained,          \* IntentClassifier.trained
    entity_patterns,  \* EntityExtractor.patterns : type -> list, in insertion order
    extractors,       \* EntityExtractor.extractors : type -> function, in insertion order
    registered,       \* history: the patterns accepted by add_pattern, in call order
    handlers,         \* ChatbotEngine._handlers : intent -> handler
    handler_log,      \* history: the register_intent_handler calls, in call order
    invoked,          \* history: the handlers invoked by the process_message call made last
    calls,            \* the process_message calls in flight: their position and locals
    written,          \* history: per user, the context stored by step 4 of the latest
                      \* of the calls in flight
    max_requests,     \* RateLimiter.max_requests
    time_window,      \* RateLimiter.time_window
    use_redis,        \* RateLimiter.use_redis
    redis_client,     \* RateLimiter.redis_client is set (FALSE stands for None)
    requests,         \* RateLimiter._requests : identifier -> deque of request times
    zset,             \* the Redis sorted sets ratelimit:<identifier> and their expiry
    granted,          \* history: per identifier, the times of the requests the
                      \* in-memory limiter allowed
    stm_initialized,  \* ShortTermMemory._is_initialized
    short_term,       \* the Redis lists session:<id>:messages, as one list
    ltm_initialized,  \* LongTermMemory._is_initialized
    long_term,        \* the rows of the table conversations
    steps             \* history: the component calls made by the chat request handled last

ctxVars == <<contexts, ctx_order, timestamps, context_timeout, now, rt>>

clsVars == <<intents, keywords, patterns, trained>>

extVars == <<entity_patterns, extractors, registered>>

engVars == <<handlers, handler_log, invoked, calls, written>>

rlVars == <<max_requests, time_window, use_redis, redis_client, requests, zset, granted>>

memVars == <<stm_initialized, short_term, ltm_initialized, long_term, steps>>

appVars == <<rlVars, memVars>>

vars == <<contexts, ctx_order, timestamps, context_timeout, now, last, rt,
          intents, keywords, patterns, trained,
          entity_patterns, extractors, registered,
          handlers, handler_log, invoked, calls, written,
          max_requests, time_window, use_redis, redis_client, requests, zset, granted,
          stm_initialized, short_term, ltm_initialized, long_term, steps>>

----------------------------------------------------------------------------
(* Bounds of the model *)

\* the clock runs from 0 to MaxTime
MaxTime == 2
\* configured timeouts range over 0..MaxTimeout (0: no expiry)
MaxTimeout == 1

Users == {"u1", "u2"}
Keys == {"k1", "k2"}
Values == {"v1", "v2"}

\* The pair whose writes the history variable rt follows. No call of the store
\* names a particular user or key, so the model is symmetric in both and one
\* watched pair stands for every pair.
WatchUser == "u1"
WatchKey == "k1"

----------------------------------------------------------------------------
(* Python dict helpers *)

EmptyMap == << >>

\* d[k] = v
Put(d, k, v) == [x \in DOMAIN d \cup {k} |-> IF x = k THEN v ELSE d[x]]

\* del d[k]
Del(d, k) == [x \in DOMAIN d \ {k} |-> d[x]]

\* dict.update: key-wise overwrite of old by upd
DictUpdate(old, upd) ==
    [k \in DOMAIN old \cup DOMAIN upd |-> IF k \in DOMAIN upd THEN upd[k] ELSE old[k]]

\* every dict over Keys with values in Values
Mappings == UNION {[S -> Values] : S \in SUBSET Keys}

\* defaultdict(dict).__getitem__: a missing key is inserted with an empty dict
Touch(ctxs, u) == IF u \in DOMAIN ctxs THEN ctxs ELSE Put(ctxs, u, EmptyMap)

\* the insertion order after a key is looked up or assigned
TouchOrder(ord, ctxs, u) == IF u \in DOMAIN ctxs THEN ord ELSE Append(ord, u)

----------------------------------------------------------------------------
(* ContextManager *)

\* Expired with the comparison weakened: a context expires when exactly the
\* timeout has elapsed
ExpiredAtTimeout(u) ==
    /\ context_timeout # 0
    /\ u \in DOMAIN timestamps
    /\ now - timestamps[u] >= context_timeout

\* get_context, lines 37-39: the expiry test
Expired(u) ==
    /\ context_timeout # 0
    /\ u \in DOMAIN timestamps
    /\ now - timestamps[u] > context_timeout

\* clear_context emptying the context of every user
ClearedEveryContext(ctxs, u) == [x \in DOMAIN ctxs |-> EmptyMap]

\* clear_context, lines 118-119, as a function of the contexts dict
ClearedContexts(ctxs, u) ==
    IF u \in DOMAIN ctxs THEN [ctxs EXCEPT ![u] = EmptyMap] ELSE ctxs

\* clear_context, lines 120-121, as a function of the timestamps dict
ClearedTimestamps(ts, u) ==
    IF u \in DOMAIN ts THEN Del(ts, u) ELSE ts

\* has_context answering "has been seen": the key test alone
HasContextSeen(u) ==
    u \in DOMAIN contexts

\* has_context's return value in the current state
HasContextResult(u) ==
    u \in DOMAIN contexts /\ DOMAIN contexts[u] # {}

\* get_all_users' return value in the current state: list(self.contexts.keys())
GetAllUsersResult == ctx_order

\* History of the watched pair (rt.user, rt.key), kept beside the program state.
\* rt.on: update_context wrote rt.val under the pair at time rt.at, no later
\* update_context, set_context_value, delete_context_key, clear_context or
\* clear_all_contexts touched the pair, and no get_context came more than the
\* timeout after the previous touch (rt.touch) of the user.
RtWrite(r, v) == [r EXCEPT !.on = TRUE, !.val = v, !.at = now, !.touch = now]

RtOff(r) == [r EXCEPT !.on = FALSE, !.val = "-", !.at = 0, !.touch = 0]

RtTouch(r) == IF r.on THEN [r EXCEPT !.touch = now] ELSE r

\* more than the timeout has passed since the previous touch of the watched user
RtLate(r) == context_timeout # 0 /\ now - r.touch > context_timeout

\* get_context that stamps a user only on the first access
get_context_StampOnce(u) ==
    LET c1 == IF Expired(u) THEN ClearedContexts(contexts, u) ELSE contexts
        t1 == IF Expired(u) THEN ClearedTimestamps(timestamps, u) ELSE timestamps
        c2 == Touch(c1, u)
    IN  /\ contexts' = c2
        /\ ctx_order' = TouchOrder(ctx_order, c1, u)
        /\ timestamps' = IF u \in DOMAIN t1 THEN t1 ELSE Put(t1, u, now)
        /\ last' = [op |-> "get_context", user |-> u, args |-> << >>, res |-> c2[u]]
        /\ rt' = IF u # rt.user THEN rt
                 ELSE IF RtLate(rt) THEN RtOff(rt) ELSE RtTouch(rt)
        /\ UNCHANGED <<context_timeout, now>>

get_context(u) ==
    LET c1 == IF Expired(u) THEN ClearedContexts(contexts, u) ELSE contexts
        t1 == IF Expired(u) THEN ClearedTimestamps(timestamps, u) ELSE timestamps
        c2 == Touch(c1, u)
    IN  /\ contexts' = c2
        /\ ctx_order' = TouchOrder(ctx_order, c1, u)
        /\ timestamps' = Put(t1, u, now)
        /\ last' = [op |-> "get_context", user |-> u, args |-> << >>, res |-> c2[u]]
        /\ rt' = IF u # rt.user THEN rt
                 ELSE IF RtLate(rt) THEN RtOff(rt) ELSE RtTouch(rt)
        /\ UNCHANGED <<context_timeout, now>>

\* update_context that ignores its merge flag and always merges
update_context_AlwaysMerge(u, updates, merge) ==
    LET c0 == Touch(contexts, u)
        c1 == [c0 EXCEPT ![u] = DictUpdate(c0[u], updates)]
    IN  /\ contexts' = c1
        /\ ctx_order' = TouchOrder(ctx_order, contexts, u)
        /\ timestamps' = Put(timestamps, u, now)
        /\ last' = [op |-> "update_context", user |-> u, args |-> <<updates, merge>>,
                    res |-> "None"]
        /\ rt' = IF u # rt.user THEN rt
                 ELSE IF rt.key \in DOMAIN updates THEN RtWrite(rt, updates[rt.key])
                 ELSE IF merge THEN RtTouch(rt) ELSE RtOff(rt)
        /\ UNCHANGED <<context_timeout, now>>

update_context(u, updates, merge) ==
    LET c1 == IF merge
              THEN LET c0 == Touch(contexts, u)
                   IN  [c0 EXCEPT ![u] = DictUpdate(c0[u], updates)]
              ELSE Put(contexts, u, updates)
    IN  /\ contexts' = c1
        /\ ctx_order' = TouchOrder(ctx_order, contexts, u)
        /\ timestamps' = Put(timestamps, u, now)
        /\ last' = [op |-> "update_context", user |-> u, args |-> <<updates, merge>>,
                    res |-> "None"]
        /\ rt' = IF u # rt.user THEN rt
                 ELSE IF rt.key \in DOMAIN updates THEN RtWrite(rt, updates[rt.key])
                 ELSE IF merge THEN RtTouch(rt) ELSE RtOff(rt)
        /\ UNCHANGED <<context_timeout, now>>

set_context_value(u, k, v) ==
    LET c0 == Touch(contexts, u)
    IN  /\ contexts' = [c0 EXCEPT ![u] = Put(c0[u], k, v)]
        /\ ctx_order' = TouchOrder(ctx_order, contexts, u)
        /\ timestamps' = Put(timestamps, u, now)
        /\ last' = [op |-> "set_context_value", user |-> u, args |-> <<k, v>>,
                    res |-> "None"]
        /\ rt' = IF u # rt.user THEN rt
                 ELSE IF k = rt.key THEN RtOff(rt) ELSE RtTouch(rt)
        /\ UNCHANGED <<context_timeout, now>>

get_context_value(u, k, default) ==
    LET c0 == Touch(contexts, u)
    IN  /\ contexts' = c0
        /\ ctx_order' = TouchOrder(ctx_order, contexts, u)
        /\ last' = [op |-> "get_context_value", user |-> u, args |-> <<k, default>>,
                    res |-> IF k \in DOMAIN c0[u] THEN c0[u][k] ELSE default]
        /\ UNCHANGED <<timestamps, context_timeout, now, rt>>

has_context(u) ==
    /\ last' = [op |-> "has_context", user |-> u, args |-> << >>,
                res |-> HasContextResult(u)]
    /\ UNCHANGED <<contexts, ctx_order, timestamps, context_timeout, now, rt>>

clear_context(u) ==
    /\ contexts' = ClearedContexts(contexts, u)
    /\ timestamps' = ClearedTimestamps(timestamps, u)
    /\ last' = [op |-> "clear_context", user |-> u, args |-> << >>, res |-> "None"]
    /\ rt' = IF u = rt.user THEN RtOff(rt) ELSE rt
    /\ UNCHANGED <<ctx_order, context_timeout, now>>

delete_context_key(u, k) ==
    /\ contexts' = IF u \in DOMAIN contexts /\ k \in DOMAIN contexts[u]
                   THEN [contexts EXCEPT ![u] = Del(contexts[u], k)]
                   ELSE contexts
    /\ last' = [op |-> "delete_context_key", user |-> u, args |-> <<k>>, res |-> "None"]
    /\ rt' = IF u = rt.user /\ k = rt.key THEN RtOff(rt) ELSE rt
    /\ UNCHANGED <<ctx_order, timestamps, context_timeout, now>>

get_all_users ==
    /\ last' = [op |-> "get_all_users", user |-> "-", args |-> << >>,
                res |-> GetAllUsersResult]
    /\ UNCHANGED <<contexts, ctx_order, timestamps, context_timeout, now, rt>>

clear_all_contexts ==
    /\ contexts' = EmptyMap
    /\ ctx_order' = << >>
    /\ timestamps' = EmptyMap
    /\ last' = [op |-> "clear_all_contexts", user |-> "-", args |-> << >>, res |-> "None"]
    /\ rt' = RtOff(rt)
    /\ UNCHANGED <<context_timeout, now>>

\* time passes between two calls
Tick ==
    /\ now < MaxTime
    /\ now' = now + 1
    /\ UNCHANGED <<contexts, ctx_order, timestamps, context_timeout, last, rt>>

\* ContextManager.__init__
CtxInit ==
    /\ contexts = EmptyMap
    /\ ctx_order = << >>
    /\ timestamps = EmptyMap
    /\ context_timeout \in 0..MaxTimeout
    /\ now = 0
    /\ last = [op |-> "init", user |-> "-", args |-> << >>, res |-> "None"]
    /\ rt = [on |-> FALSE, user |-> WatchUser, key |-> WatchKey,
              val |-> "-", at |-> 0, touch |-> 0]

CtxNext ==
    \/ \E u \in Users : get_context(u)
    \/ \E u \in Users, m \in Mappings, b \in BOOLEAN : update_context(u, m, b)
    \/ \E u \in Users, k \in Keys, v \in Values : set_context_value(u, k, v)
    \/ \E u \in Users, k \in Keys : get_context_value(u, k, "None")
    \/ \E u \in Users : has_context(u)
    \/ \E u \in Users : clear_context(u)
    \/ \E u \in Users, k \in Keys : delete_context_key(u, k)
    \/ get_all_users
    \/ clear_all_contexts
    \/ Tick

\* no classifier is in use
ClsIdle == intents = << >> /\ keywords = << >> /\ patterns = << >> /\ trained = FALSE

\* no extractor is in use
ExtIdle == entity_patterns = << >> /\ extractors = << >> /\ registered = << >>

\* no engine is in use
EngIdle ==
    /\ handlers = EmptyMap
    /\ handler_log = << >>
    /\ invoked = << >>
    /\ calls = EmptyMap
    /\ written = EmptyMap

\* no rate limiter and no chat service are in use
AppIdle ==
    /\ max_requests = 1
    /\ time_window = 1
    /\ use_redis = FALSE
    /\ redis_client = FALSE
    /\ requests = EmptyMap
    /\ zset = EmptyMap
    /\ granted = EmptyMap
    /\ stm_initialized = FALSE
    /\ short_term = << >>
    /\ ltm_initialized = FALSE
    /\ long_term = << >>
    /\ steps = << >>

Init == CtxInit /\ ClsIdle /\ ExtIdle /\ EngIdle /\ AppIdle

Next == CtxNext /\ UNCHANGED <<clsVars, extVars, engVars, appVars>>

\* the ContextManager alone
Spec == Init /\ [][Next]_vars

----------------------------------------------------------------------------
(* Claims about the ContextManager, checked under Spec *)

\* the step is a call of op for user u (every call sets last; Tick does not)
Call(op, u) == now' = now /\ last' # last /\ last'.op = op /\ last'.user = u

\* more than the timeout has elapsed since the last touch of u's context
TimedOut(u) ==
    /\ context_timeout # 0
    /\ u \in DOMAIN timestamps
    /\ now - timestamps[u] > context_timeout

\* C1: with timeout T, once more than T has elapsed since the last touch of a
\* user's context, the next get_context(user) returns the empty mapping and
\* every has_context(user) call made from then on returns false.
C1_ExpiryClearsGetAndHas ==
    [][\A u \in Users :
          TimedOut(u) =>
              /\ Call("get_context", u) => last'.res = EmptyMap
              /\ Call("has_context", u) => last'.res = FALSE]_vars

\* C2: round trip. After update_context(user, {k: v, ...}) (merge or not), a
\* get_context(user) returns v under k, provided no more than the timeout has
\* elapsed since the update (any time when no timeout is configured) and no
\* update, set_context_value, delete_context_key or clear touched k in between.
C2_RoundTrip ==
    [][(/\ Call("get_context", rt.user)
        /\ rt.on
        /\ (context_timeout = 0 \/ now - rt.at <= context_timeout))
       => (rt.key \in DOMAIN last'.res /\ last'.res[rt.key] = rt.val)]_vars

\* C2 witness: the value written is read back exactly when the timeout has elapsed
C2_Witness ==
    /\ last.op = "get_context" /\ last.user = rt.user
    /\ rt.on /\ rt.touch = now
    /\ context_timeout # 0 /\ now - rt.at = context_timeout
    /\ rt.key \in DOMAIN last.res /\ last.res[rt.key] = rt.val

\* C3: every get_context(user) resets the user's last-touch time to the current
\* time, and a context whose touches never lie more than the timeout apart is
\* not cleared by expiry: a get_context still returns the value written, however
\* long ago it was written.
C3_ReadExtendsSession ==
    [][\A u \in Users :
          Call("get_context", u) =>
              /\ u \in DOMAIN timestamps' /\ timestamps'[u] = now
              /\ (u = rt.user /\ rt.on /\ ~RtLate(rt))
                    => (rt.key \in DOMAIN last'.res /\ last'.res[rt.key] = rt.val)]_vars

\* C3 witness: a value is read back more than the timeout after it was written
C3_Witness ==
    /\ last.op = "get_context" /\ last.user = rt.user
    /\ rt.on /\ rt.touch = now
    /\ context_timeout # 0 /\ now - rt.at > context_timeout
    /\ rt.key \in DOMAIN last.res /\ last.res[rt.key] = rt.val

\* the mapping stored for u, empty when u is not a key of contexts
Stored(u) == IF u \in DOMAIN contexts THEN contexts[u] ELSE EmptyMap

\* C4: update_context(user, partial, merge=true) leaves the user's mapping equal
\* to the old mapping overridden key-wise by partial; with merge=false the
\* mapping is exactly partial; either way the user's last-touch time is the
\* current time and every other user's mapping is unchanged.
C4_UpdateFrame ==
    [][\A u \in Users :
          Call("update_context", u) =>
              LET p == last'.args[1]
                  m == last'.args[2]
              IN
              /\ u \in DOMAIN contexts'
              /\ m => /\ DOMAIN contexts'[u] = DOMAIN Stored(u) \cup DOMAIN p
                      /\ \A k \in DOMAIN p : contexts'[u][k] = p[k]
                      /\ \A k \in DOMAIN Stored(u) \ DOMAIN p :
                            contexts'[u][k] = Stored(u)[k]
              /\ ~m => contexts'[u] = p
              /\ u \in DOMAIN timestamps' /\ timestamps'[u] = now
              /\ \A w \in Users \ {u} :
                    /\ w \in DOMAIN contexts' <=> w \in DOMAIN contexts
                    /\ w \in DOMAIN contexts => contexts'[w] = contexts[w]]_vars

\* C4 witness: a merging update has kept the watched key, written earlier, and
\* the user's mapping holds every key
C4_Witness ==
    /\ last.op = "update_context" /\ last.user = rt.user
    /\ last.args[2] /\ DOMAIN last.args[1] = Keys \ {rt.key}
    /\ rt.on /\ rt.at < now /\ rt.touch = now
    /\ DOMAIN contexts[rt.user] = Keys
    /\ contexts[rt.user][rt.key] = rt.val

\* C5: has_context(user) is true exactly when the mapping stored for the user is
\* non-empty: reading a user with get_context or get_context_value never makes
\* it true, and it is false after clear_context, after clear_all_contexts and
\* after delete_context_key removed the user's last key.
C5_HasIffNonEmpty ==
    [][\A u \in Users :
          /\ Call("has_context", u) => (last'.res <=> Stored(u) # EmptyMap)
          /\ (Call("get_context", u) \/ Call("get_context_value", u))
                => (HasContextResult(u)' => HasContextResult(u))
          /\ Call("clear_context", u) => ~HasContextResult(u)'
          /\ Call("clear_all_contexts", "-") => ~HasContextResult(u)'
          /\ (Call("delete_context_key", u) /\ DOMAIN Stored(u) = {last'.args[1]})
                => ~HasContextResult(u)']_vars

\* C5 witness: has_context returned false for a user that is a key of contexts
C5_Witness ==
    /\ last.op = "has_context" /\ last.res = FALSE
    /\ last.user \in DOMAIN contexts
    /\ contexts[last.user] = EmptyMap

\* C6: get_all_users() returns exactly the users for which has_context is true,
\* after any sequence of calls; after clear_all_contexts it is empty.
C6_AllUsersAreActive ==
    [][/\ Call("get_all_users", "-")
          => {last'.res[i] : i \in DOMAIN last'.res} = {u \in Users : HasContextResult(u)}
       /\ Call("clear_all_contexts", "-") => GetAllUsersResult' = << >>]_vars

------------------------------------------------------------\* C27: once more than the timeout has elapsed since the last touch of a user,
\* nothing stored for the user before is observable again, whichever call
\* touches the user first: a get returns the empty mapping, a get_value the
\* default, has false, and after an update, a set_value or a delete_key the
\* user's mapping holds only what that call wrote.
C27_StaleValuesNeverObservable ==
    [][\A u \in Users :
          TimedOut(u) =>
              /\ Call("get_context", u) => last'.res = EmptyMap
              /\ Call("get_context_value", u) => last'.res = last'.args[2]
              /\ Call("has_context", u) => last'.res = FALSE
              /\ Call("update_context", u) => Stored(u)' = last'.args[1]
              /\ Call("set_context_value", u) =>
                    Stored(u)' = Put(EmptyMap, last'.args[1], last'.args[2])
              /\ Call("delete_context_key", u) => Stored(u)' = EmptyMap]_vars

----------------
(* IntentClassifier *)

\* A string is a sequence of one-character strings. Scores are held in tenths
\* (2.0 is 20) and a confidence in thirtieths (1.0 is ConfidenceScale), so that
\* score / 3.0 is exact.
PatternWeight == 20
KeywordWeight == 10
ContextBoost == 3
ConfidenceScale == 30
\* train keeps the words longer than this
MinWordLen == 3

\* the registered keyword and pattern items together never exceed MaxItems
MaxItems == 2

Intents == {"A", "B", "C"}

\* keywords "ab", "B" and the empty keyword ""
KeywordPool == {<<"a", "b">>, <<"B">>, << >>}

\* keywords arguments of add_intent; << >> stands for None and for []
KeywordArgs == {<< >>} \cup {<<k>> : k \in KeywordPool} \cup {<<<<"a", "b">>, <<"B">>>>}

\* A regular expression of the fragment ^? (char | .*)* : whether it starts
\* with ^, and its tokens. Here r"^a.*b" and r"b".
PatternPool == {[anchored |-> TRUE, toks |-> <<"a", ".*", "b">>],
                [anchored |-> FALSE, toks |-> <<"b">>]}

\* patterns arguments of add_intent; << >> stands for None and for []
PatternArgs == {<< >>} \cup {<<q>> : q \in PatternPool}

\* the texts classified: "", "ab", "AB", "ba", "abab"
Texts == {<< >>, <<"a", "b">>, <<"A", "B">>, <<"b", "a">>, <<"a", "b", "a", "b">>}

\* the context argument of classify: None or {} (both falsy), a context
\* without last_intent, and one with last_intent
NoContext == << >>

ClassifyContexts ==
    {NoContext, [last_message |-> "hi"]} \cup {[last_intent |-> i] : i \in Intents}

\* str.lower() on one character
Lower(c) == CASE c = "A" -> "a" [] c = "B" -> "b" [] c = "T" -> "t" [] OTHER -> c

\* str.lower()
LowerStr(str) == [i \in DOMAIN str |-> Lower(str[i])]

\* Python's `sub in text` on strings
Contains(text, sub) ==
    \E i \in 0..(Len(text) - Len(sub)) : \A j \in 1..Len(sub) : text[i + j] = sub[j]

\* whether the tokens match text from position i on, ignoring case
RECURSIVE MatchAt(_, _, _)
MatchAt(toks, text, i) ==
    IF toks = << >> THEN TRUE
    ELSE IF Head(toks) = ".*"
         THEN \E j \in i..(Len(text) + 1) : MatchAt(Tail(toks), text, j)
         ELSE /\ i <= Len(text)
              /\ Lower(text[i]) = Lower(Head(toks))
              /\ MatchAt(Tail(toks), text, i + 1)

\* re.compile(pattern, re.IGNORECASE).search(text)
Search(pattern, text) ==
    \E i \in (IF pattern.anchored THEN {1} ELSE 1..(Len(text) + 1)) :
        MatchAt(pattern.toks, text, i)

\* An insertion-ordered dict intent -> list is a sequence of entries
\* [intent, items]; these are `k in d` and d[k].extend(xs) on a defaultdict(list).
DictHas(d, k) == \E i \in DOMAIN d : d[i].intent = k

\* d[k] = xs in place of d[k].extend(xs): a registration replaces the list
DictReplace(d, k, xs) ==
    IF DictHas(d, k)
    THEN [i \in DOMAIN d |->
             IF d[i].intent = k THEN [d[i] EXCEPT !.items = xs] ELSE d[i]]
    ELSE Append(d, [intent |-> k, items |-> xs])

DictExtend(d, k, xs) ==
    IF DictHas(d, k)
    THEN [i \in DOMAIN d |->
             IF d[i].intent = k THEN [d[i] EXCEPT !.items = @ \o xs] ELSE d[i]]
    ELSE Append(d, [intent |-> k, items |-> xs])

\* d[k] read on the defaultdict(list): the list of k, empty when k has none
ItemsOf(d, k) ==
    IF DictHas(d, k) THEN d[CHOOSE i \in DOMAIN d : d[i].intent = k].items ELSE << >>

RECURSIVE ItemCount(_)
ItemCount(d) == IF d = << >> THEN 0 ELSE Len(Head(d).items) + ItemCount(Tail(d))

\* self.intents[intent] = {...}: the values of self.intents are never read, so
\* only its keys and their order are kept
IntentsPut(ks, k) == IF \E i \in DOMAIN ks : ks[i] = k THEN ks ELSE Append(ks, k)

\* scores[intent] += w on the defaultdict(float) scores, a sequence of
\* entries [intent, score] in insertion order
ScoreHas(scores, k) == \E i \in DOMAIN scores : scores[i].intent = k

ScoreAdd(scores, k, w) ==
    IF ScoreHas(scores, k)
    THEN [i \in DOMAIN scores |->
             IF scores[i].intent = k THEN [scores[i] EXCEPT !.score = @ + w]
             ELSE scores[i]]
    ELSE Append(scores, [intent |-> k, score |-> w])

\* the tests of the inner loops with the keyword test case-sensitive:
\* keyword in text
HitCaseSensitive(kind, item, text) ==
    IF kind = "pattern" THEN Search(item, text)
    ELSE Contains(text, item)

\* the test of the inner loops: pattern.search(text), keyword.lower() in text_lower
Hit(kind, item, text) ==
    IF kind = "pattern" THEN Search(item, text)
    ELSE Contains(LowerStr(text), LowerStr(item))

Weight(kind) == IF kind = "pattern" THEN PatternWeight ELSE KeywordWeight

\* for item in items: if <hit>: scores[intent] += <weight>
RECURSIVE ItemLoop(_, _, _, _, _)
ItemLoop(scores, k, items, text, kind) ==
    IF items = << >> THEN scores
    ELSE ItemLoop(IF Hit(kind, Head(items), text)
                  THEN ScoreAdd(scores, k, Weight(kind)) ELSE scores,
                  k, Tail(items), text, kind)

\* for intent, items in d.items(): <the inner loop>
RECURSIVE DictLoop(_, _, _, _)
DictLoop(scores, d, text, kind) ==
    IF d = << >> THEN scores
    ELSE DictLoop(ItemLoop(scores, Head(d).intent, Head(d).items, text, kind),
                  Tail(d), text, kind)

\* lines 109-113 without the `in scores` test: the boost is added to
\* scores[last_intent] whatever its evidence
BoostedAlways(scores, context) ==
    IF context # NoContext /\ "last_intent" \in DOMAIN context
    THEN ScoreAdd(scores, context.last_intent, ContextBoost)
    ELSE scores

\* lines 109-113: context-based boosting
Boosted(scores, context) ==
    IF /\ context # NoContext
       /\ "last_intent" \in DOMAIN context
       /\ ScoreHas(scores, context.last_intent)
    THEN ScoreAdd(scores, context.last_intent, ContextBoost)
    ELSE scores

\* Python's max(items, key=score): the first of the items of greatest score
RECURSIVE MaxFrom(_, _)
MaxFrom(best, rest) ==
    IF rest = << >> THEN best
    ELSE MaxFrom(IF Head(rest).score > best.score THEN Head(rest) ELSE best, Tail(rest))

Min(a, b) == IF a <= b THEN a ELSE b

\* lines 93-113: the scores dict when the best intent is chosen
Scores(text, context) ==
    Boosted(DictLoop(DictLoop(<< >>, patterns, text, "pattern"),
                     keywords, text, "keyword"),
            context)

\* classify without the clamp of the confidence to 1.0
ClassifyUnclamped(text, context) ==
    LET scores == Scores(text, context)
        best == MaxFrom(Head(scores), Tail(scores))
    IN  IF scores # << >>
        THEN [intent |-> best.intent, confidence |-> best.score]
        ELSE [intent |-> "unknown", confidence |-> 0]

\* classify's return value in the current state
ClassifyResult(text, context) ==
    LET scores == Scores(text, context)
        best == MaxFrom(Head(scores), Tail(scores))
    IN  IF scores # << >>
        THEN [intent |-> best.intent, confidence |-> Min(best.score, ConfidenceScale)]
        ELSE [intent |-> "unknown", confidence |-> 0]

IntentClassifierInit ==
    /\ intents = << >>
    /\ keywords = << >>
    /\ patterns = << >>
    /\ trained = FALSE
    /\ last = [op |-> "init", user |-> "-", args |-> << >>, res |-> "None"]

\* example.get("intent") of an example without intent
NoIntent == "None"

\* the training data: "This abab" for A with an example that names no intent,
\* and "ABAB  ab" then "abab" for B
TrainArgs ==
    {<<[text |-> <<"T", "h", "i", "s", " ", "a", "b", "a", "b">>, intent |-> "A"],
       [text |-> <<"a", "b", "a", "b">>, intent |-> NoIntent]>>,
     <<[text |-> <<"A", "B", "A", "B", " ", " ", "a", "b">>, intent |-> "B"],
       [text |-> <<"a", "b", "a", "b">>, intent |-> "B"]>>}

\* line 66: the words that are no keywords, "this", "that", "with", "from", "have"
StopList ==
    {<<"t", "h", "i", "s">>, <<"t", "h", "a", "t">>, <<"w", "i", "t", "h">>,
     <<"f", "r", "o", "m">>, <<"h", "a", "v", "e">>}

\* str.split(): the maximal runs of non-blank characters, from position i on,
\* cur being the run read so far
RECURSIVE SplitFrom(_, _, _)
SplitFrom(text, i, cur) ==
    LET done == IF cur = << >> THEN << >> ELSE <<cur>>
    IN  IF i > Len(text) THEN done
        ELSE IF text[i] = " " THEN done \o SplitFrom(text, i + 1, << >>)
        ELSE SplitFrom(text, i + 1, Append(cur, text[i]))

Split(text) == SplitFrom(text, 1, << >>)

\* lines 62-67: the significant words of a text
IsSignificant(w) == Len(w) > MinWordLen /\ w \notin StopList

SignificantWords(text) == SelectSeq(Split(LowerStr(text)), IsSignificant)

\* lines 72-74 without the membership test: every word is appended
RECURSIVE AddWordsAll(_, _, _)
AddWordsAll(kws, k, words) ==
    IF words = << >> THEN kws
    ELSE AddWordsAll(DictExtend(kws, k, <<Head(words)>>), k, Tail(words))

\* lines 72-74: for word in significant_words: if word not in
\* self.keywords[intent]: self.keywords[intent].append(word)
RECURSIVE AddWords(_, _, _)
AddWords(kws, k, words) ==
    IF words = << >> THEN kws
    ELSE AddWords(IF \E j \in DOMAIN ItemsOf(kws, k) : ItemsOf(kws, k)[j] = Head(words)
                  THEN kws
                  ELSE DictExtend(kws, k, <<Head(words)>>),
                  k, Tail(words))

\* lines 56-74: the loop over the examples, on the pair of self.intents and
\* self.keywords; an example whose intent is missing or empty is skipped
RECURSIVE TrainLoop(_, _)
TrainLoop(st, examples) ==
    IF examples = << >> THEN st
    ELSE LET e == Head(examples)
         IN  TrainLoop(IF e.intent # NoIntent
                       THEN [intents |-> IntentsPut(st.intents, e.intent),
                             keywords |-> AddWords(st.keywords, e.intent,
                                                   SignificantWords(e.text))]
                       ELSE st,
                       Tail(examples))

train(training_data) ==
    LET st == TrainLoop([intents |-> intents, keywords |-> keywords], training_data)
    IN  /\ ItemCount(st.keywords) + ItemCount(patterns) <= MaxItems
        /\ intents' = st.intents
        /\ keywords' = st.keywords
        /\ trained' = TRUE
        /\ last' = [op |-> "train", user |-> "-", args |-> <<training_data>>,
                    res |-> "None"]
        /\ UNCHANGED patterns
        /\ UNCHANGED ctxVars

\* re.compile(pattern, re.IGNORECASE) succeeds: in this fragment it raises
\* re.error exactly for an opening parenthesis, which nothing closes
Compiles(pattern) == \A i \in DOMAIN pattern.toks : pattern.toks[i] # "("

\* lines 44-46: the patterns appended before the first one re.compile rejects
RECURSIVE CompiledPrefix(_)
CompiledPrefix(pats) ==
    IF pats = << >> \/ ~Compiles(Head(pats))
    THEN << >>
    ELSE <<Head(pats)>> \o CompiledPrefix(Tail(pats))

\* add_intent, lines 22-46. self.intents and self.keywords are written before
\* the patterns are compiled one by one, and self.patterns[intent] is created
\* before the first re.compile, so a call that raises keeps what it wrote.
add_intent(intent, kws, pats) ==
    /\ ItemCount(keywords) + ItemCount(patterns) + Len(kws) + Len(pats) <= MaxItems
    /\ intents' = IntentsPut(intents, intent)
    /\ keywords' = IF kws # << >> THEN DictExtend(keywords, intent, kws) ELSE keywords
    /\ patterns' = IF pats # << >>
                   THEN DictExtend(patterns, intent, CompiledPrefix(pats))
                   ELSE patterns
    /\ last' = [op |-> "add_intent", user |-> "-", args |-> <<intent, kws, pats>>,
                res |-> IF CompiledPrefix(pats) = pats THEN "None" ELSE "re.error"]
    /\ UNCHANGED trained
    /\ UNCHANGED ctxVars

classify(text, context) ==
    /\ last' = [op |-> "classify", user |-> "-", args |-> <<text, context>>,
                res |-> ClassifyResult(text, context)]
    /\ UNCHANGED clsVars
    /\ UNCHANGED ctxVars

get_intents ==
    /\ last' = [op |-> "get_intents", user |-> "-", args |-> << >>, res |-> intents]
    /\ UNCHANGED clsVars
    /\ UNCHANGED ctxVars

\* no context store is in use
CtxIdle ==
    /\ contexts = EmptyMap
    /\ ctx_order = << >>
    /\ timestamps = EmptyMap
    /\ context_timeout = 0
    /\ now = 0
    /\ rt = [on |-> FALSE, user |-> WatchUser, key |-> WatchKey,
             val |-> "-", at |-> 0, touch |-> 0]

ClassifierNext ==
    /\ \/ \E i \in Intents, ks \in KeywordArgs, ps \in PatternArgs : add_intent(i, ks, ps)
       \/ \E ex \in TrainArgs : train(ex)
       \/ \E t \in Texts, c \in ClassifyContexts : classify(t, c)
       \/ get_intents
    /\ UNCHANGED <<extVars, engVars, appVars>>

ClassifierInit == IntentClassifierInit /\ CtxIdle /\ ExtIdle /\ EngIdle /\ AppIdle

\* the IntentClassifier alone
SpecClassifier == ClassifierInit /\ [][ClassifierNext]_vars

----------------------------------------------------------------------------
(* Claims about the IntentClassifier, checked under SpecClassifier *)

\* the keyword occurs in the text as a case-insensitive substring
Occurs(kw, text) ==
    \E off \in 0..(Len(text) - Len(kw)) :
        \A j \in 1..Len(kw) : Lower(text[off + j]) = Lower(kw[j])

\* the reference score from the text alone: 2.0 per registered pattern that
\* matches, 1.0 per registered keyword that occurs, each list entry counted
Evidence(k, text) ==
    PatternWeight *
        Cardinality({j \in DOMAIN ItemsOf(patterns, k) : Search(ItemsOf(patterns, k)[j], text)})
    + KeywordWeight *
        Cardinality({j \in DOMAIN ItemsOf(keywords, k) : Occurs(ItemsOf(keywords, k)[j], text)})

\* the context names k as last_intent
IsLastIntent(k, context) ==
    context # NoContext /\ "last_intent" \in DOMAIN context /\ context.last_intent = k

\* the reference score: the evidence plus the continuity bonus
RefScore(k, text, context) ==
    Evidence(k, text)
    + (IF IsLastIntent(k, context) /\ Evidence(k, text) > 0 THEN ContextBoost ELSE 0)

\* C7: for every text, every context and every registration, classify returns
\* a confidence in the closed range [0, 1].
C7_ConfidenceInRange ==
    last.op = "classify" =>
        (last.res.confidence >= 0 /\ last.res.confidence <= ConfidenceScale)

\* C7 witness: a confidence of 1.0 returned for a score above 3.0
C7_Witness ==
    /\ last.op = "classify"
    /\ last.res.confidence = ConfidenceScale
    /\ RefScore(last.res.intent, last.args[1], last.args[2]) > ConfidenceScale

\* C8: classify equals the reference scoring function: the intent returned has
\* the greatest reference score, its confidence is min(score / 3.0, 1.0), and
\* when no intent has a positive score the result is "unknown" with 0.0.
C8_ClassifyIsReference ==
    last.op = "classify" =>
        LET t == last.args[1]
            c == last.args[2]
            r == last.res
        IN  IF \E k \in Intents : RefScore(k, t, c) > 0
            THEN /\ r.intent \in Intents
                 /\ \A k \in Intents : RefScore(k, t, c) <= RefScore(r.intent, t, c)
                 /\ r.confidence = Min(RefScore(r.intent, t, c), ConfidenceScale)
            ELSE r = [intent |-> "unknown", confidence |-> 0]

\* C8 witness: an upper-case text classified by a pattern and a keyword together
C8_Witness ==
    /\ last.op = "classify"
    /\ last.args[1] = <<"A", "B">>
    /\ last.res.intent \in Intents
    /\ Evidence(last.res.intent, last.args[1]) = PatternWeight + KeywordWeight

FirstIn(seq, S) == seq[CHOOSE i \in DOMAIN seq :
                          seq[i] \in S /\ \A j \in 1..(i - 1) : seq[j] \notin S]

\* C10: when several intents share the maximum score, classify returns the one
\* registered first (the order of get_intents), whether the scores come from
\* patterns or from keywords.
C10_TieFirstRegistered ==
    last.op = "classify" =>
        LET t == last.args[1]
            c == last.args[2]
            top == {k \in Intents :
                       /\ RefScore(k, t, c) > 0
                       /\ \A j \in Intents : RefScore(j, t, c) <= RefScore(k, t, c)}
        IN  top # {} => last.res.intent = FirstIn(intents, top)

\* C11: whatever intents, keywords and patterns are registered, classify("")
\* does not raise and returns the label "unknown" with confidence 0.0.
C11_EmptyTextIsUnknown ==
    (last.op = "classify" /\ last.args[1] = << >>)
        => last.res = [intent |-> "unknown", confidence |-> 0]

\* the first sequence is an initial segment of the second
IsPrefix(xs, ys) == Len(xs) <= Len(ys) /\ SubSeq(ys, 1, Len(xs)) = xs

Range(seq) == {seq[i] : i \in DOMAIN seq}

NoDuplicates(seq) == \A i, j \in DOMAIN seq : seq[i] = seq[j] => i = j

\* C12: registration is additive. Every step keeps every keyword and pattern
\* registered so far, in place; add_intent for a name, registered before or
\* not, appends its keywords and patterns to that name's lists and leaves the
\* lists of every other name alone; the confidence classify returns counts
\* every list entry of the intent returned; get_intents lists every name once.
C12_AdditiveRegistration ==
    [][ /\ \A k \in Intents :
              /\ IsPrefix(ItemsOf(keywords, k), ItemsOf(keywords', k))
              /\ IsPrefix(ItemsOf(patterns, k), ItemsOf(patterns', k))
        /\ IsPrefix(intents, intents')
        /\ last'.op = "add_intent" =>
              /\ \A k \in Intents :
                    /\ ItemsOf(keywords', k) =
                          ItemsOf(keywords, k)
                              \o (IF k = last'.args[1] THEN last'.args[2] ELSE << >>)
                    /\ ItemsOf(patterns', k) =
                          ItemsOf(patterns, k)
                              \o (IF k = last'.args[1] THEN last'.args[3] ELSE << >>)
              /\ Range(intents') = Range(intents) \cup {last'.args[1]}
        /\ last'.op = "classify" =>
              (last'.res.intent \in Intents =>
                  last'.res.confidence =
                      Min(RefScore(last'.res.intent, last'.args[1], last'.args[2]),
                          ConfidenceScale))
        /\ last'.op = "get_intents" =>
              /\ NoDuplicates(last'.res)
              /\ \A k \in Intents :
                    (DictHas(keywords, k) \/ DictHas(patterns, k)) => k \in Range(last'.res)
      ]_vars

\* C12 witness: add_intent was called for a name that had a keyword already,
\* and the name is listed with the earlier keyword followed by the new one
C12_Witness ==
    /\ last.op = "add_intent"
    /\ last.args[2] # << >>
    /\ Len(ItemsOf(keywords, last.args[1])) > Len(last.args[2])
    /\ Cardinality({i \in DOMAIN intents : intents[i] = last.args[1]}) = 1

\* the tokens of a text as the claim words them: the maximal blank-free
\* stretches of the lower-cased text, longer than 3 characters, outside the
\* stop-list
TokensOf(text) ==
    LET low == LowerStr(text)
        IsToken(i, j) ==
            /\ i <= j
            /\ \A x \in i..j : low[x] # " "
            /\ (i = 1 \/ low[i - 1] = " ")
            /\ (j = Len(low) \/ low[j + 1] = " ")
    IN  {SubSeq(low, i, j) : <<i, j>> \in
            {ij \in (DOMAIN low) \X (DOMAIN low) : IsToken(ij[1], ij[2])}}
        \ {<<"t", "h", "i", "s">>, <<"t", "h", "a", "t">>, <<"w", "i", "t", "h">>,
           <<"f", "r", "o", "m">>, <<"h", "a", "v", "e">>}

LongTokensOf(text) == {w \in TokensOf(text) : Len(w) > 3}

\* the tokens the examples give to intent k
TrainedTokens(examples, k) ==
    UNION {LongTokensOf(examples[i].text) :
              i \in {j \in DOMAIN examples : examples[j].intent = k}}

\* C13: train adds to each example's intent exactly the tokens of its text that
\* are longer than 3 characters and outside the stop-list, adds none that is
\* present already, removes nothing, and training again with the same examples
\* changes no keyword list.
C13_TrainAddsTokensOnce ==
    [][ last'.op = "train" =>
          LET ex == last'.args[1]
          IN  /\ \A k \in Intents :
                    /\ IsPrefix(ItemsOf(keywords, k), ItemsOf(keywords', k))
                    /\ Range(ItemsOf(keywords', k)) =
                          Range(ItemsOf(keywords, k)) \cup TrainedTokens(ex, k)
                    /\ Len(ItemsOf(keywords', k)) =
                          Len(ItemsOf(keywords, k))
                          + Cardinality(TrainedTokens(ex, k) \ Range(ItemsOf(keywords, k)))
              /\ TrainLoop([intents |-> intents', keywords |-> keywords'], ex).keywords
                    = keywords'
      ]_vars

\* C13 witness: the examples that name "abab" twice for B were trained, after
\* which B has "abab" once
C13_Witness ==
    /\ last.op = "train"
    /\ Len(last.args[1]) = 2
    /\ last.args[1][1].intent = "B"
    /\ last.args[1][2].intent = "B"
    /\ ItemsOf(keywords, "B") = <<<<"a", "b", "a", "b">>>>
    /\ trained

----------------------------------------------------------------------------------------------------------------------------------------
(* Registrations that fail *)

\* patterns arguments with r"(b", which re.compile rejects: alone, and after
\* the valid r"b"
FailingPatternArgs ==
    {<<[anchored |-> FALSE, toks |-> <<"(", "b">>]>>,
     <<[anchored |-> FALSE, toks |-> <<"b">>],
       [anchored |-> FALSE, toks |-> <<"(", "b">>]>>}

RegistrationNext ==
    /\ \/ \E i \in {"A", "B"}, ks \in {<< >>, <<<<"a", "b">>>>},
             ps \in PatternArgs \cup FailingPatternArgs : add_intent(i, ks, ps)
       \/ \E t \in Texts, c \in ClassifyContexts : classify(t, c)
       \/ get_intents
    /\ UNCHANGED <<extVars, engVars, appVars>>

\* the IntentClassifier with registrations that raise
SpecRegistration == ClassifierInit /\ [][RegistrationNext]_vars

\* C28: an add_intent call that raises re.error leaves the classifier as it
\* was: get_intents and classify of every text in every context return what
\* they returned before the call.
C28_FailedAddIntentChangesNothing ==
    [][(last'.op = "add_intent" /\ last' # last /\ last'.res = "re.error") =>
          /\ intents' = intents
          /\ \A t \in Texts, c \in ClassifyContexts :
                ClassifyResult(t, c)' = ClassifyResult(t, c)]_vars

----------------
(* EntityExtractor *)

\* add_pattern calls beyond the five of the constructor
MaxPatterns == 2

EntityTypes == {"number", "x"}

\* The regular expressions given to add_pattern, in the fragment of the
\* classifier's patterns: r"b", r".*", r"1" and the malformed r"(b".
EntityPatternPool ==
    {[anchored |-> FALSE, toks |-> <<"b">>],
     [anchored |-> FALSE, toks |-> <<".*">>],
     [anchored |-> FALSE, toks |-> <<"1">>],
     [anchored |-> FALSE, toks |-> <<"(", "b">>]}

\* the texts entities are extracted from: "", "b", "1", "1 b", "Bb"
ExtractTexts == {<< >>, <<"b">>, <<"1">>, <<"1", " ", "b">>, <<"B", "b">>}

\* The custom extraction functions registered: "words" returns the words of
\* the text as plain values, "spans" returns a dict with value and start (and
\* no end) for every "b" of the text.
ExtractorPool == {"words", "spans"}

\* The patterns of _register_default_extractors. The texts of the model are
\* shorter than any e-mail address, phone number, URL or date and hold none of
\* "@", "/", "-", ":", so these four expressions are kept as one token each,
\* which matches nowhere. The texts hold no "." either, which leaves
\* \b\d+\b of the number pattern \b\d+(?:\.\d+)?\b.
DefaultPatterns ==
    <<[type |-> "email", items |-> <<[anchored |-> FALSE, toks |-> <<"<email>">>]>>],
      [type |-> "phone", items |-> <<[anchored |-> FALSE, toks |-> <<"<phone>">>]>>],
      [type |-> "url", items |-> <<[anchored |-> FALSE, toks |-> <<"<url>">>]>>],
      [type |-> "number",
       items |-> <<[anchored |-> FALSE, toks |-> <<"<b>", "<d+>", "<b>">>]>>],
      [type |-> "date", items |-> <<[anchored |-> FALSE, toks |-> <<"<date>">>]>>]>>

\* \d and \w on the characters of the model
IsDigit(c) == c = "1"

IsWordChar(c) == c \notin {" ", "("}

\* \b before position i: exactly one of the characters around it is a word
\* character
Boundary(text, i) ==
    (i > 1 /\ IsWordChar(text[i - 1])) # (i <= Len(text) /\ IsWordChar(text[i]))

\* the positions at which the rest of the expression may go on once the token
\* has matched from position i
Choices(tok, text, i) ==
    CASE tok = ".*" -> i..(Len(text) + 1)
      [] tok = "<d+>" ->
            {j \in (i + 1)..(Len(text) + 1) : \A x \in i..(j - 1) : IsDigit(text[x])}
      [] tok = "<b>" -> IF Boundary(text, i) THEN {i} ELSE {}
      [] tok \in {"<email>", "<phone>", "<url>", "<date>"} -> {}
      [] OTHER -> IF i <= Len(text) /\ Lower(text[i]) = Lower(tok) THEN {i + 1} ELSE {}

Max(S) == CHOOSE x \in S : \A y \in S : y <= x

Least(S) == CHOOSE x \in S : \A y \in S : x <= y

\* the position after the match the regular expression engine finds from
\* position i (every repetition is greedy), 0 when there is none
RECURSIVE MatchEnd(_, _, _)
MatchEnd(toks, text, i) ==
    IF toks = << >> THEN i
    ELSE LET ok == {j \in Choices(Head(toks), text, i) : MatchEnd(Tail(toks), text, j) # 0}
         IN  IF ok = {} THEN 0 ELSE MatchEnd(Tail(toks), text, Max(ok))

\* pattern.finditer(text) from position pos on: the spans (start, end) of the
\* non-overlapping matches from left to right. After an empty match the next
\* one may not be empty at the same position (must_advance).
RECURSIVE FindFrom(_, _, _, _)
FindFrom(pattern, text, pos, must_advance) ==
    LET starts == IF pattern.anchored THEN {1} \cap (pos..(Len(text) + 1))
                  ELSE pos..(Len(text) + 1)
        found == {b \in starts :
                     /\ MatchEnd(pattern.toks, text, b) # 0
                     /\ ~(must_advance /\ b = pos /\ MatchEnd(pattern.toks, text, b) = b)}
        b == Least(found)
        e == MatchEnd(pattern.toks, text, b)
    IN  IF found = {} THEN << >>
        ELSE <<[start |-> b - 1, end |-> e - 1]>> \o FindFrom(pattern, text, e, e = b)

FindIter(pattern, text) == FindFrom(pattern, text, 1, FALSE)

\* `entity_type in d` on the dicts of the extractor, sequences of entries
\* [type, items] and [type, func] in insertion order
TypeHas(d, t) == \E i \in DOMAIN d : d[i].type = t

RECURSIVE Flatten(_)
Flatten(seqs) == IF seqs = << >> THEN << >> ELSE Head(seqs) \o Flatten(Tail(seqs))

\* lines 97-104: the entities of one pattern, one per match
MatchEntities(t, pattern, text) ==
    LET m == FindIter(pattern, text)
    IN  [i \in DOMAIN m |->
            [type |-> t, value |-> SubSeq(text, m[i].start + 1, m[i].end),
             start |-> m[i].start, end |-> m[i].end]]

\* lines 95-104: pattern-based extraction, type by type in the order of the
\* dict and pattern by pattern in the order of the type's list
PatternEntities(pats, text) ==
    Flatten([i \in DOMAIN pats |->
                Flatten([j \in DOMAIN pats[i].items |->
                            MatchEntities(pats[i].type, pats[i].items[j], text)])])

\* extractor(text) for the functions of ExtractorPool
RunExtractor(func, text) ==
    IF func = "words" THEN Split(text)
    ELSE LET at == SelectSeq([i \in 1..Len(text) |-> i], LAMBDA i : text[i] = "b")
         IN  [n \in DOMAIN at |-> [value |-> <<"b">>, start |-> at[n] - 1]]

\* lines 109-117: a dict gets the type of its extractor, any other value is
\* wrapped as {"type", "value"}
Tagged(func, t, entity) ==
    IF func = "words" THEN [type |-> t, value |-> entity]
    ELSE [type |-> t, value |-> entity.value, start |-> entity.start]

\* lines 107-117: custom extractors, in the order of the dict
CustomEntities(exts, text) ==
    Flatten([i \in DOMAIN exts |->
                LET out == RunExtractor(exts[i].func, text)
                IN  [n \in DOMAIN out |-> Tagged(exts[i].func, exts[i].type, out[n])]])

\* line 120: the sort key x.get("start", 0)
SortKey(entity) == IF "start" \in DOMAIN entity THEN entity.start ELSE 0

\* an insertion that puts the entity before those of the same key
InsertBeforeEqual(sorted, entity) ==
    LET n == Cardinality({i \in DOMAIN sorted : SortKey(sorted[i]) < SortKey(entity)})
    IN  SubSeq(sorted, 1, n) \o <<entity>> \o SubSeq(sorted, n + 1, Len(sorted))

\* list.sort is stable: an entity goes behind those of a smaller or the same key
InsertSorted(sorted, entity) ==
    LET n == Cardinality({i \in DOMAIN sorted : SortKey(sorted[i]) <= SortKey(entity)})
    IN  SubSeq(sorted, 1, n) \o <<entity>> \o SubSeq(sorted, n + 1, Len(sorted))

RECURSIVE SortFrom(_, _)
SortFrom(sorted, rest) ==
    IF rest = << >> THEN sorted
    ELSE SortFrom(InsertSorted(sorted, Head(rest)), Tail(rest))

\* lines 92-122: what extract returns for given dicts
ExtractOf(pats, exts, text) ==
    SortFrom(<< >>, PatternEntities(pats, text) \o CustomEntities(exts, text))

ExtractResult(text) == ExtractOf(entity_patterns, extractors, text)

\* the add_pattern calls of _register_default_extractors
DefaultCalls ==
    [i \in DOMAIN DefaultPatterns |->
        [type |-> DefaultPatterns[i].type, pattern |-> DefaultPatterns[i].items[1],
         ok |-> TRUE]]

\* EntityExtractor.__init__
EntityExtractorInit ==
    /\ entity_patterns = DefaultPatterns
    /\ extractors = << >>
    /\ registered = DefaultCalls
    /\ last = [op |-> "init", user |-> "-", args |-> << >>, res |-> "None"]

\* lines 62-63: the type's list is created before the pattern is compiled
WithType(pats, t) ==
    IF TypeHas(pats, t) THEN pats ELSE Append(pats, [type |-> t, items |-> << >>])

\* add_pattern with the pattern stored before it is compiled
add_pattern_StoreFirst(entity_type, pattern) ==
    /\ Len(registered) < Len(DefaultCalls) + MaxPatterns
    /\ entity_patterns' =
          [i \in DOMAIN WithType(entity_patterns, entity_type) |->
              LET e == WithType(entity_patterns, entity_type)[i]
              IN  IF e.type = entity_type THEN [e EXCEPT !.items = Append(@, pattern)]
                  ELSE e]
    /\ registered' = Append(registered, [type |-> entity_type, pattern |-> pattern,
                                          ok |-> Compiles(pattern)])
    /\ last' = [op |-> "add_pattern", user |-> "-", args |-> <<entity_type, pattern>>,
                res |-> IF Compiles(pattern) THEN "None" ELSE "re.error"]
    /\ UNCHANGED extractors

add_pattern(entity_type, pattern) ==
    /\ Len(registered) < Len(DefaultCalls) + MaxPatterns
    /\ entity_patterns' =
          IF Compiles(pattern)
          THEN [i \in DOMAIN WithType(entity_patterns, entity_type) |->
                   LET e == WithType(entity_patterns, entity_type)[i]
                   IN  IF e.type = entity_type THEN [e EXCEPT !.items = Append(@, pattern)]
                       ELSE e]
          ELSE WithType(entity_patterns, entity_type)
    /\ registered' = Append(registered, [type |-> entity_type, pattern |-> pattern,
                                          ok |-> Compiles(pattern)])
    /\ last' = [op |-> "add_pattern", user |-> "-", args |-> <<entity_type, pattern>>,
                res |-> IF Compiles(pattern) THEN "None" ELSE "re.error"]
    /\ UNCHANGED extractors

\* self.extractors[entity_type] = extractor_func
add_custom_extractor(entity_type, extractor_func) ==
    /\ extractors' =
          IF TypeHas(extractors, entity_type)
          THEN [i \in DOMAIN extractors |->
                   IF extractors[i].type = entity_type
                   THEN [extractors[i] EXCEPT !.func = extractor_func]
                   ELSE extractors[i]]
          ELSE Append(extractors, [type |-> entity_type, func |-> extractor_func])
    /\ last' = [op |-> "add_custom_extractor", user |-> "-",
                args |-> <<entity_type, extractor_func>>, res |-> "None"]
    /\ UNCHANGED <<entity_patterns, registered>>

\* the intent argument is not read
extract(text, intent) ==
    /\ last' = [op |-> "extract", user |-> "-", args |-> <<text, intent>>,
                res |-> ExtractResult(text)]
    /\ UNCHANGED extVars

ExtractorNext ==
    /\ \/ \E t \in EntityTypes, q \in EntityPatternPool : add_pattern(t, q)
       \/ \E t \in EntityTypes, f \in ExtractorPool : add_custom_extractor(t, f)
       \/ \E t \in ExtractTexts : extract(t, "None")
    /\ UNCHANGED <<ctxVars, clsVars, engVars, appVars>>

ExtractorInit == EntityExtractorInit /\ CtxIdle /\ ClsIdle /\ EngIdle /\ AppIdle

\* the EntityExtractor alone
SpecExtractor == ExtractorInit /\ [][ExtractorNext]_vars

----------------------------------------------------------------------------
(* Claims about the EntityExtractor, checked under SpecExtractor *)

\* the entities in ascending order of their key (no start: 0), those of the
\* same key in the order in which the list has them
StablyOrdered(list, maxKey) ==
    Flatten([k \in 1..(maxKey + 1) |->
                SelectSeq(list, LAMBDA entity : SortKey(entity) = k - 1)])

\* the matches of the patterns in the order of the add_pattern calls
InCallOrder(text) ==
    Flatten([i \in DOMAIN registered |->
                IF registered[i].ok
                THEN MatchEntities(registered[i].type, registered[i].pattern, text)
                ELSE << >>])

\* the types in the order in which add_pattern first named them
TypesByFirstCall ==
    LET first == SelectSeq([i \in DOMAIN registered |-> i],
                           LAMBDA i : \A j \in 1..(i - 1) :
                                          registered[j].type # registered[i].type)
    IN  [n \in DOMAIN first |-> registered[first[n]].type]

\* the matches of the patterns type by type, the types in the order in which
\* add_pattern first named them, the patterns of a type in the order of their calls
InTypeOrder(text) ==
    Flatten([n \in DOMAIN TypesByFirstCall |->
                Flatten([i \in DOMAIN registered |->
                            IF registered[i].ok /\ registered[i].type = TypesByFirstCall[n]
                            THEN MatchEntities(registered[i].type,
                                               registered[i].pattern, text)
                            ELSE << >>])])

\* C14 as claimed: extract returns its entities in ascending order of start
\* (no start: 0), those of the same key in insertion order, which is the
\* pattern matches in the order in which the patterns were registered and
\* then the results of the custom extractors.
C14_SortedByRegistration ==
    last.op = "extract" =>
        last.res = StablyOrdered(InCallOrder(last.args[1])
                                     \o CustomEntities(extractors, last.args[1]),
                                 Len(last.args[1]))

\* C14 as amended: the same, with the pattern matches inserted type by type,
\* the types in the order in which add_pattern first named them and the
\* patterns of one type in the order of their registration. The result is a
\* function of the registrations and the text alone.
C14_SortedByTypeThenRegistration ==
    last.op = "extract" =>
        last.res = StablyOrdered(InTypeOrder(last.args[1])
                                     \o CustomEntities(extractors, last.args[1]),
                                 Len(last.args[1]))

\* C14 witness: a custom entity without start was returned before a pattern
\* match it was inserted after, and behind a pattern match of start 0
C14_Witness ==
    /\ last.op = "extract"
    /\ \E i, j, k \in DOMAIN last.res :
          /\ i < j /\ j < k
          /\ "end" \in DOMAIN last.res[i] /\ last.res[i].start = 0
          /\ "start" \notin DOMAIN last.res[j]
          /\ "end" \in DOMAIN last.res[k] /\ last.res[k].start > 0

\* C15: every entity extract derives from a registered pattern has
\* 0 <= start < end <= len(text) and value = text[start:end].
C15_PatternSpans ==
    last.op = "extract" =>
        \A i \in DOMAIN last.res :
            "end" \in DOMAIN last.res[i] =>
                /\ 0 <= last.res[i].start
                /\ last.res[i].start < last.res[i].end
                /\ last.res[i].end <= Len(last.args[1])
                /\ last.res[i].value =
                      SubSeq(last.args[1], last.res[i].start + 1, last.res[i].end)

\* C16: add_pattern fails at the call exactly when the regular expression is
\* invalid; the failed call stores no pattern, so every pattern extract runs
\* is a compiled one, and extract returns for every text what it returned
\* before the failed call.
C16_InvalidPatternFailsFast ==
    [][ last'.op = "add_pattern" =>
          /\ (last'.res = "re.error") = ~Compiles(last'.args[2])
          /\ \A i \in DOMAIN entity_patterns' :
                \A j \in DOMAIN entity_patterns'[i].items :
                    Compiles(entity_patterns'[i].items[j])
          /\ last'.res = "re.error" =>
                \A t \in ExtractTexts :
                    ExtractOf(entity_patterns', extractors', t)
                        = ExtractOf(entity_patterns, extractors, t)
      ]_vars

\* C16 witness: add_pattern failed for a type that had no pattern, after a
\* pattern of another type was registered, and "b" still has its entity
C16_Witness ==
    /\ last.op = "add_pattern"
    /\ last.res = "re.error"
    /\ \E i \in DOMAIN entity_patterns :
          entity_patterns[i].type = last.args[1] /\ entity_patterns[i].items = << >>
    /\ Len(registered) = Len(DefaultCalls) + 2
    /\ ExtractResult(<<"b">>) # << >>

----------------------------------------------------------------------------
(* ChatbotEngine *)

\* register_intent_handler calls
MaxHandlers == 2

\* the messages processed: "ab" and "1 b"
EngineTexts == {<<"a", "b">>, <<"1", " ", "b">>}

\* the registrations made through engine.intent_classifier:
\* add_intent("A", keywords=["ab"]) and add_intent("B", keywords=["B"])
EngineIntents == {<<"A", <<<<"a", "b">>>>>>, <<"B", <<<<"B">>>>>>}

\* the intents handlers are registered for
HandlerIntents == {"A", "B", "unknown"}

\* the handlers registered: h1 answers with a reply, h2 returns None
HandlerPool == {"h1", "h2"}

\* handler(message, entities, context) for the handlers of HandlerPool
HandlerResult(handler, message, entities, context) ==
    IF handler = "h1" THEN [reply |-> message, seen |-> DOMAIN context] ELSE "None"

\* line 63, self.context_manager.get_context(user_id): the stores after the
\* call and the context it returns
GetStep(u) ==
    LET c1 == IF Expired(u) THEN ClearedContexts(contexts, u) ELSE contexts
        t1 == IF Expired(u) THEN ClearedTimestamps(timestamps, u) ELSE timestamps
        c2 == Touch(c1, u)
    IN  [contexts |-> c2,
         ctx_order |-> TouchOrder(ctx_order, c1, u),
         timestamps |-> Put(t1, u, now),
         rt |-> IF u # rt.user THEN rt
                ELSE IF RtLate(rt) THEN RtOff(rt) ELSE RtTouch(rt),
         context |-> c2[u]]

\* lines 74-78: the update of one turn
TurnUpdate(message, intent, entities) ==
    [last_message |-> message, last_intent |-> intent, entities |-> entities]

\* line 72 with the turn's update replacing the stored context
ReplacedBy(ctxs, u, updates) == Put(ctxs, u, updates)

\* line 72, self.context_manager.update_context(user_id, {...}): merge is True
MergedInto(ctxs, u, updates) ==
    [Touch(ctxs, u) EXCEPT ![u] = DictUpdate(Touch(ctxs, u)[u], updates)]

\* lines 82-95: the result, with "response" when a handler is registered for
\* the intent
ResultOf(message, intent_result, entities, context) ==
    IF intent_result.intent \in DOMAIN handlers
    THEN [message |-> message, intent |-> intent_result.intent,
          confidence |-> intent_result.confidence, entities |-> entities,
          context |-> context,
          response |-> HandlerResult(handlers[intent_result.intent],
                                     message, entities, context)]
    ELSE [message |-> message, intent |-> intent_result.intent,
          confidence |-> intent_result.confidence, entities |-> entities,
          context |-> context]

\* lines 91-93: the handlers the call invokes
InvokedFor(intent) ==
    IF intent \in DOMAIN handlers THEN <<handlers[intent]>> ELSE << >>

\* ChatbotEngine.__init__ with the context manager given
ChatbotEngineInit ==
    /\ CtxInit
    /\ IntentClassifierInit
    /\ EntityExtractorInit
    /\ handlers = EmptyMap
    /\ handler_log = << >>
    /\ invoked = << >>
    /\ calls = EmptyMap
    /\ written = EmptyMap
    /\ AppIdle

\* register_intent_handler that keeps the handler an intent has already
register_intent_handler_KeepFirst(intent, handler) ==
    /\ Len(handler_log) < MaxHandlers
    /\ handlers' = IF intent \in DOMAIN handlers THEN handlers
                   ELSE Put(handlers, intent, handler)
    /\ handler_log' = Append(handler_log, [intent |-> intent, handler |-> handler])
    /\ last' = [op |-> "register_intent_handler", user |-> "-",
                args |-> <<intent, handler>>, res |-> "None"]
    /\ UNCHANGED <<invoked, calls, written>>
    /\ UNCHANGED <<ctxVars, clsVars, extVars, appVars>>

register_intent_handler(intent, handler) ==
    /\ Len(handler_log) < MaxHandlers
    /\ handlers' = Put(handlers, intent, handler)
    /\ handler_log' = Append(handler_log, [intent |-> intent, handler |-> handler])
    /\ last' = [op |-> "register_intent_handler", user |-> "-",
                args |-> <<intent, handler>>, res |-> "None"]
    /\ UNCHANGED <<invoked, calls, written>>
    /\ UNCHANGED <<ctxVars, clsVars, extVars, appVars>>

\* process_message run from its first to its last line with no other call between
process_message(message, user_id) ==
    LET g == GetStep(user_id)
        intent_result == ClassifyResult(message, g.context)
        entities == ExtractResult(message)
        updates == TurnUpdate(message, intent_result.intent, entities)
    IN  /\ contexts' = MergedInto(g.contexts, user_id, updates)
        /\ ctx_order' = g.ctx_order
        /\ timestamps' = g.timestamps
        /\ rt' = IF user_id = rt.user THEN RtTouch(g.rt) ELSE g.rt
        /\ invoked' = InvokedFor(intent_result.intent)
        /\ last' = [op |-> "process_message", user |-> user_id, args |-> <<message>>,
                    res |-> ResultOf(message, intent_result, entities, g.context)]
        /\ UNCHANGED <<context_timeout, now>>
        /\ UNCHANGED <<handlers, handler_log, calls, written>>
        /\ UNCHANGED <<clsVars, extVars, appVars>>

\* ChatbotEngine.clear_context
ChatbotEngine_clear_context(user_id) == clear_context(user_id)

EngineNext ==
    \/ /\ \E m \in EngineTexts, u \in Users : process_message(m, u)
    \/ /\ \E a \in EngineIntents : add_intent(a[1], a[2], << >>)
       /\ UNCHANGED <<extVars, engVars, appVars>>
    \/ /\ \E u \in Users : ChatbotEngine_clear_context(u)
       /\ UNCHANGED <<clsVars, extVars, engVars, appVars>>
    \/ /\ \E u \in Users : set_context_value(u, "k1", "v1")
       /\ UNCHANGED <<clsVars, extVars, engVars, appVars>>
    \/ /\ Tick
       /\ UNCHANGED <<clsVars, extVars, engVars, appVars>>

\* an engine whose turns run one after the other, with calls between the
\* turns that store a value of the application or clear a context
SpecEngine == ChatbotEngineInit /\ [][EngineNext]_vars

\* the calls made on engine.context_manager between turns
StoreCall(u) ==
    \/ get_context(u)
    \/ \E b \in BOOLEAN : update_context(u, [k1 |-> "v1"], b)
    \/ set_context_value(u, "k1", "v1")
    \/ get_context_value(u, "k1", "None")
    \/ has_context(u)
    \/ clear_context(u)
    \/ delete_context_key(u, "k1")

TurnsNext ==
    \/ /\ \E u \in Users : process_message(<<"1", " ", "b">>, u)
    \/ /\ add_intent("B", <<<<"B">>>>, << >>)
       /\ UNCHANGED <<extVars, engVars, appVars>>
    \/ /\ \E u \in Users : StoreCall(u)
       /\ UNCHANGED <<clsVars, extVars, engVars, appVars>>
    \/ /\ Tick
       /\ UNCHANGED <<clsVars, extVars, engVars, appVars>>

\* the turns of several users and their calls on the store, one after the other
SpecTurns == ChatbotEngineInit /\ [][TurnsNext]_vars

\* ChatbotEngine(): the context manager it constructs has no timeout
DefaultEngineInit == ChatbotEngineInit /\ context_timeout = 0

DispatchNext ==
    \/ \E i \in HandlerIntents, h \in HandlerPool : register_intent_handler(i, h)
    \/ /\ \E a \in EngineIntents : add_intent(a[1], a[2], << >>)
       /\ UNCHANGED <<extVars, engVars, appVars>>
    \/ \E m \in EngineTexts : process_message(m, WatchUser)

\* the turns of one user of a default engine whose handlers are registered
\* and replaced at any time
SpecDispatch == DefaultEngineInit /\ [][DispatchNext]_vars

----------------------------------------------------------------------------
(* Claims about the ChatbotEngine *)

TurnKeys == {"last_message", "last_intent", "entities"}

\* C17: after process_message(text, user) the user's stored context has
\* last_message = text, last_intent = the intent returned and entities = the
\* entities returned, and every other key that was stored for the user before
\* the turn and had not expired is stored still, with its value.
C17_TurnIsMerged ==
    [][\A u \in Users :
          Call("process_message", u) =>
              /\ u \in DOMAIN contexts'
              /\ TurnKeys \subseteq DOMAIN contexts'[u]
              /\ contexts'[u].last_message = last'.args[1]
              /\ contexts'[u].last_intent = last'.res.intent
              /\ contexts'[u].entities = last'.res.entities
              /\ ~TimedOut(u) =>
                    \A k \in DOMAIN Stored(u) \ TurnKeys :
                        k \in DOMAIN contexts'[u] /\ contexts'[u][k] = Stored(u)[k]]_vars

\* C17 witness: a turn has replaced the last_message of an earlier turn and
\* has kept the value the application stored between the two
C17_Witness ==
    /\ last.op = "process_message"
    /\ "last_message" \in DOMAIN last.res.context
    /\ last.res.context.last_message # last.args[1]
    /\ "k1" \in DOMAIN last.res.context
    /\ contexts[last.user].last_message = last.args[1]
    /\ contexts[last.user].k1 = "v1"
    /\ context_timeout # 0
    /\ now > 0

\* the handler the latest register_intent_handler call for the intent named
HandlerLogFor(intent) ==
    LET at == {i \in DOMAIN handler_log : handler_log[i].intent = intent}
    IN  IF at = {} THEN << >> ELSE <<handler_log[Max(at)].handler>>

\* C18: the result of process_message has a response exactly when a handler
\* is registered for the detected intent; then the handler registered last
\* for that intent is invoked once, with the message, the entities and the
\* context of the turn, its return value is the response, and no other
\* handler is invoked; with no handler the call returns without response.
C18_HandlerDispatch ==
    last.op = "process_message" =>
        LET r == last.res
            h == HandlerLogFor(r.intent)
        IN  /\ ("response" \in DOMAIN r) = (h # << >>)
            /\ invoked = h
            /\ h # << >> =>
                  r.response = HandlerResult(h[1], r.message, r.entities, r.context)
            /\ r.message = last.args[1]

\* C18 witness: two handlers were registered for one intent, one after the
\* other, and a turn of that intent was answered by the second
C18_Witness ==
    /\ last.op = "process_message"
    /\ "response" \in DOMAIN last.res
    /\ \E i, j \in DOMAIN handler_log :
          /\ i < j
          /\ handler_log[i].intent = last.res.intent
          /\ handler_log[j].intent = last.res.intent
          /\ handler_log[i].handler # handler_log[j].handler
          /\ invoked = <<handler_log[j].handler>>

\* what the store holds for a user: the context and the time of the last touch
SliceOf(ctxs, ts, u) ==
    [has |-> u \in DOMAIN ctxs,
     context |-> IF u \in DOMAIN ctxs THEN ctxs[u] ELSE EmptyMap,
     touched |-> IF u \in DOMAIN ts THEN ts[u] ELSE -1]

\* C19: process_message for a user and every call on the store that names a
\* user leave the context and the last-touch time of every other user as
\* they were.
C19_OtherUsersUntouched ==
    [][\A a \in Users :
          (now' = now /\ last'.user = a) =>
              \A b \in Users \ {a} :
                  SliceOf(contexts', timestamps', b) = SliceOf(contexts, timestamps, b)]_vars

\* C19 witness: a turn of one user has run while another user had a context of
\* an earlier turn, touched at an earlier time, and that context is as it was
C19_Witness ==
    /\ last.op = "process_message"
    /\ \E b \in Users \ {last.user} :
          /\ b \in DOMAIN contexts
          /\ "last_message" \in DOMAIN contexts[b]
          /\ "k1" \in DOMAIN contexts[b]
          /\ b \in DOMAIN timestamps
          /\ timestamps[b] < now
          /\ timestamps[last.user] = now

------------------------------------------------------------\* the context a turn beginning now would read at step 1
NextTurnContext(u) == GetStep(u).context

\* C25: a turn that follows a turn of the same user, with no expiry and no
\* clear between the two, is classified with last_intent = the intent the
\* earlier turn returned; once the timeout has elapsed since the user's last
\* touch, or after clear_context, the next turn is classified with no
\* last_intent, whatever call touched the user in between.
C25_ContinuityFollowsPreviousTurn ==
    [][\A u \in Users :
          /\ Call("process_message", u) =>
                /\ contexts'[u].last_intent = last'.res.intent
                /\ IF ~TimedOut(u) /\ "last_intent" \in DOMAIN Stored(u)
                   THEN /\ "last_intent" \in DOMAIN last'.res.context
                        /\ last'.res.context.last_intent = Stored(u).last_intent
                   ELSE "last_intent" \notin DOMAIN last'.res.context
          /\ (Call("clear_context", u) \/ (TimedOut(u) /\ Call("set_context_value", u)))
                => "last_intent" \notin DOMAIN NextTurnContext(u)']_vars

\* C26: the context in the result of a turn, which is also the one its
\* handler receives, is the context read at step 1: what was stored for the
\* user before the turn's merge, and nothing when the timeout had elapsed. It
\* never holds the last_intent or last_message of the turn itself, and after
\* the timeout has elapsed a turn finds neither of them from before, whatever
\* call touched the user in between.
C26_ResultContextIsSnapshot ==
    [][\A u \in Users :
          /\ Call("process_message", u) =>
                /\ last'.res.context = IF TimedOut(u) THEN EmptyMap ELSE Stored(u)
                /\ "response" \in DOMAIN last'.res =>
                      last'.res.response =
                          HandlerResult(handlers[last'.res.intent], last'.args[1],
                                        last'.res.entities, last'.res.context)
          /\ (TimedOut(u) /\ Call("set_context_value", u)) =>
                DOMAIN NextTurnContext(u)' \cap {"last_intent", "last_message"} = {}]_vars

----------------
(* process_message calls of several threads. A call takes two steps: the     *)
(* read of the context (line 63), and the rest (lines 66-97), whose only     *)
(* access to the store is the write of the update. Each call on the context  *)
(* manager is one step; the engine holds no lock from one to the next.       *)

Threads == {"t1", "t2"}

\* the other calls in flight for the user
OthersFor(t, u) == {x \in DOMAIN calls \ {t} : calls[x].user = u}

\* the context the latest step 4 for the user stored, empty before the first
WrittenFor(u) == IF u \in DOMAIN written THEN written[u] ELSE EmptyMap

\* step 1 with get_context handing out a new empty dict instead of the stored one
call_read_Fresh(t, message, user_id) ==
    LET g == GetStep(user_id)
    IN  /\ t \notin DOMAIN calls
        /\ contexts' = g.contexts
        /\ ctx_order' = g.ctx_order
        /\ timestamps' = g.timestamps
        /\ rt' = g.rt
        /\ calls' = [x \in DOMAIN calls \cup {t} |->
                        IF x = t
                        THEN [user |-> user_id, message |-> message,
                              context |-> EmptyMap,
                              alone |-> OthersFor(t, user_id) = {}]
                        ELSE IF calls[x].user = user_id
                             THEN [calls[x] EXCEPT !.alone = FALSE]
                             ELSE calls[x]]
        /\ UNCHANGED <<context_timeout, now, last>>
        /\ UNCHANGED <<handlers, handler_log, invoked, written>>
        /\ UNCHANGED <<clsVars, extVars, appVars>>

\* step 1, line 63: context = self.context_manager.get_context(user_id).
\* alone: no other call for the user has been in flight since this one began.
call_read(t, message, user_id) ==
    LET g == GetStep(user_id)
    IN  /\ t \notin DOMAIN calls
        /\ contexts' = g.contexts
        /\ ctx_order' = g.ctx_order
        /\ timestamps' = g.timestamps
        /\ rt' = g.rt
        /\ calls' = [x \in DOMAIN calls \cup {t} |->
                        IF x = t
                        THEN [user |-> user_id, message |-> message,
                              context |-> g.context,
                              alone |-> OthersFor(t, user_id) = {}]
                        ELSE IF calls[x].user = user_id
                             THEN [calls[x] EXCEPT !.alone = FALSE]
                             ELSE calls[x]]
        /\ UNCHANGED <<context_timeout, now, last>>
        /\ UNCHANGED <<handlers, handler_log, invoked, written>>
        /\ UNCHANGED <<clsVars, extVars, appVars>>

\* steps 2 to 6, lines 66-97: classify against the context read at step 1,
\* extract, merge the update into the context the store holds now, run the
\* handler and return. Nothing after step 4 reads or writes the store.
call_finish(t) ==
    /\ t \in DOMAIN calls
    /\ LET c == calls[t]
           intent_result == ClassifyResult(c.message, c.context)
           entities == ExtractResult(c.message)
           updates == TurnUpdate(c.message, intent_result.intent, entities)
       IN  /\ contexts' = MergedInto(contexts, c.user, updates)
           /\ ctx_order' = TouchOrder(ctx_order, contexts, c.user)
           /\ timestamps' = Put(timestamps, c.user, now)
           /\ rt' = IF c.user = rt.user THEN RtTouch(rt) ELSE rt
           /\ written' = Put(written, c.user, MergedInto(contexts, c.user, updates)[c.user])
           /\ invoked' = InvokedFor(intent_result.intent)
           /\ last' = [op |-> "process_message", user |-> c.user, args |-> <<c.message>>,
                       res |-> ResultOf(c.message, intent_result, entities, c.context)]
    /\ calls' = Del(calls, t)
    /\ UNCHANGED <<context_timeout, now>>
    /\ UNCHANGED <<handlers, handler_log>>
    /\ UNCHANGED <<clsVars, extVars, appVars>>

\* the messages a user sends: the watched user any of them, the others "ab"
ConcurrentTexts(u) == IF u = WatchUser THEN EngineTexts ELSE {<<"a", "b">>}

ConcurrentNext ==
    \/ \E t \in Threads, u \in Users :
          \E m \in ConcurrentTexts(u) : call_read(t, m, u)
    \/ \E t \in Threads : call_finish(t)
    \/ /\ \E a \in EngineIntents : add_intent(a[1], a[2], << >>)
       /\ UNCHANGED <<extVars, engVars, appVars>>

\* a default engine called from two threads
SpecConcurrent == DefaultEngineInit /\ [][ConcurrentNext]_vars

\* C20: no lock is held from step 1 to step 4. A call that begins while no
\* other call for its user is in flight reads at step 1 exactly the context
\* step 4 of that user's previous call stored, and when it stays the only one
\* its own step 4 stores that context with the turn's update merged in.
C20_SerialCallsReadLastWrite ==
    [][\A t \in Threads :
          /\ (t \notin DOMAIN calls /\ t \in DOMAIN calls' /\ calls'[t].alone) =>
                calls'[t].context = WrittenFor(calls'[t].user)
          /\ (t \in DOMAIN calls /\ calls[t].alone /\ t \notin DOMAIN calls') =>
                /\ calls[t].context = WrittenFor(calls[t].user)
                /\ last'.res.context = calls[t].context
                /\ written'[calls[t].user] =
                      DictUpdate(calls[t].context,
                                 TurnUpdate(calls[t].message, last'.res.intent,
                                            last'.res.entities))]_vars

\* C20 witness: two calls for one user have both read the same context before
\* either wrote; one has written and returned, the other is about to classify
\* its message against the context it read, which misses that update and
\* gives another intent than the stored context would
C20_Witness ==
    \E t \in DOMAIN calls :
        /\ last.op = "process_message"
        /\ last.user = calls[t].user
        /\ ~calls[t].alone
        /\ calls[t].context = last.res.context
        /\ calls[t].context # WrittenFor(calls[t].user)
        /\ WrittenFor(calls[t].user).last_message = last.args[1]
        /\ ClassifyResult(calls[t].message, calls[t].context).intent
              # ClassifyResult(calls[t].message, WrittenFor(calls[t].user)).intent

----------------------------------------------------------------------------
(* RateLimiter *)

\* the largest max_requests and time_window a limiter is constructed with
MaxRequests == 2
MaxWindow == 2

\* the identifiers requests come from
Identifiers == {"i1", "i2"}

\* settings.rate_limit_enabled, as configured
rate_limit_enabled == TRUE

\* What becomes of a round trip to Redis: it is answered ("ok"), it raises
\* before the server has run the commands ("down"), or it raises after the
\* server has run them and the reply is lost ("lost").
Outcomes == {"ok", "down", "lost"}

\* self._requests[identifier] on the defaultdict(deque)
DequeOf(identifier) ==
    IF identifier \in DOMAIN requests THEN requests[identifier] ELSE << >>

\* lines 88-89 with <= in place of <: a request made exactly time_window ago
\* is discarded too
RECURSIVE PopOldInclusive(_, _)
PopOldInclusive(reqs, cutoff_time) ==
    IF reqs # << >> /\ Head(reqs) <= cutoff_time
    THEN PopOldInclusive(Tail(reqs), cutoff_time)
    ELSE reqs

\* lines 88-89: while requests and requests[0] < cutoff_time: requests.popleft()
RECURSIVE PopOld(_, _)
PopOld(reqs, cutoff_time) ==
    IF reqs # << >> /\ Head(reqs) < cutoff_time
    THEN PopOld(Tail(reqs), cutoff_time)
    ELSE reqs

\* _is_allowed_memory, lines 83-98: the decision and the deque it leaves
IsAllowedMemory(reqs, current_time) ==
    LET kept == PopOld(reqs, current_time - time_window)
    IN  IF Len(kept) >= max_requests
        THEN [allowed |-> FALSE, requests |-> kept]
        ELSE [allowed |-> TRUE, requests |-> Append(kept, current_time)]

\* _get_remaining_memory, lines 162-169
GetRemainingMemory(reqs, current_time) ==
    LET cutoff_time == current_time - time_window
        valid_requests == Cardinality({i \in DOMAIN reqs : reqs[i] > cutoff_time})
    IN  Max({0, max_requests - valid_requests})

\* The sorted set under ratelimit:<identifier>. Its members are str(time), so
\* two requests of one instant are one member; it is gone once the expiry set
\* by the last expire call is reached.
MembersOf(identifier) ==
    IF identifier \in DOMAIN zset /\ now < zset[identifier].expires
    THEN zset[identifier].members
    ELSE {}

\* zremrangebyscore(key, lo, hi): both ends are inclusive
ZRemRangeByScore(members, lo, hi) == {x \in members : ~(lo <= x /\ x <= hi)}

\* the pipeline of _is_allowed_redis that answers False when the count is
\* not below max_requests, and also when the server cannot be asked
IsAllowedRedisFailClosed(members, current_time, outcome) ==
    LET kept == ZRemRangeByScore(members, 0, current_time - time_window)
        request_count == Cardinality(kept)
    IN  [allowed |-> IF outcome = "ok" THEN ~(request_count >= max_requests) ELSE FALSE,
         members |-> kept \cup {current_time},
         expires |-> current_time + time_window]

\* _is_allowed_redis, lines 109-141: zremrangebyscore, zcard, zadd and expire in
\* one pipeline; the decision, and the sorted set once the server has run them
IsAllowedRedis(members, current_time, outcome) ==
    LET kept == ZRemRangeByScore(members, 0, current_time - time_window)
        request_count == Cardinality(kept)
    IN  [allowed |-> IF outcome = "ok" THEN ~(request_count >= max_requests) ELSE TRUE,
         members |-> kept \cup {current_time},
         expires |-> current_time + time_window]

\* _get_remaining_redis, lines 173-189: zremrangebyscore and zcard
GetRemainingRedis(members, current_time, outcome) ==
    LET kept == ZRemRangeByScore(members, 0, current_time - time_window)
        request_count == Cardinality(kept)
    IN  [remaining |-> IF outcome = "ok"
                       THEN Max({0, max_requests - request_count})
                       ELSE max_requests,
         members |-> kept]

\* the times of the requests the in-memory limiter allowed for the identifier
GrantedTo(identifier) ==
    IF identifier \in DOMAIN granted THEN granted[identifier] ELSE << >>

\* RateLimiter.__init__, lines 28-38, and _init_redis: max_requests and
\* time_window are never 0 (0 falls back to the settings), and the client is
\* kept only when use_redis is set and the ping is answered
RateLimiterInit ==
    /\ max_requests \in 1..MaxRequests
    /\ time_window \in 1..MaxWindow
    /\ use_redis \in BOOLEAN
    /\ redis_client \in {c \in BOOLEAN : c => use_redis}
    /\ requests = EmptyMap
    /\ zset = EmptyMap
    /\ granted = EmptyMap
    /\ last = [op |-> "init", user |-> "-", args |-> << >>, res |-> "None"]

\* is_allowed, lines 66-72, with the method it dispatches to
is_allowed(identifier, outcome) ==
    /\ redis_client \/ outcome = "ok"
    /\ LET m == IsAllowedMemory(DequeOf(identifier), now)
           r == IsAllowedRedis(MembersOf(identifier), now, outcome)
           allowed == IF ~rate_limit_enabled THEN TRUE
                      ELSE IF redis_client THEN r.allowed ELSE m.allowed
       IN  /\ requests' = IF rate_limit_enabled /\ ~redis_client
                          THEN Put(requests, identifier, m.requests)
                          ELSE requests
           /\ zset' = IF rate_limit_enabled /\ redis_client /\ outcome # "down"
                      THEN Put(zset, identifier,
                               [members |-> r.members, expires |-> r.expires])
                      ELSE zset
           /\ granted' = IF rate_limit_enabled /\ ~redis_client /\ allowed
                         THEN Put(granted, identifier, Append(GrantedTo(identifier), now))
                         ELSE granted
           /\ last' = [op |-> "is_allowed", user |-> identifier, args |-> <<outcome>>,
                       res |-> allowed]
    /\ UNCHANGED <<max_requests, time_window, use_redis, redis_client>>

\* get_remaining_requests, lines 152-158, with the method it dispatches to
get_remaining_requests(identifier, outcome) ==
    /\ redis_client \/ outcome = "ok"
    /\ LET r == GetRemainingRedis(MembersOf(identifier), now, outcome)
       IN  /\ requests' = IF rate_limit_enabled /\ ~redis_client
                          THEN Put(requests, identifier, DequeOf(identifier))
                          ELSE requests
           /\ zset' = IF rate_limit_enabled /\ redis_client /\ outcome # "down"
                         /\ identifier \in DOMAIN zset
                      THEN Put(zset, identifier,
                               [members |-> r.members,
                                expires |-> zset[identifier].expires])
                      ELSE zset
           /\ last' = [op |-> "get_remaining_requests", user |-> identifier,
                       args |-> <<outcome>>,
                       res |-> IF ~rate_limit_enabled THEN max_requests
                               ELSE IF redis_client THEN r.remaining
                               ELSE GetRemainingMemory(DequeOf(identifier), now)]
    /\ UNCHANGED <<max_requests, time_window, use_redis, redis_client, granted>>

\* no chat service is in use
MemIdle ==
    /\ stm_initialized = FALSE
    /\ short_term = << >>
    /\ ltm_initialized = FALSE
    /\ long_term = << >>
    /\ steps = << >>

LimiterInit == RateLimiterInit /\ CtxIdle /\ ClsIdle /\ ExtIdle /\ EngIdle /\ MemIdle

LimiterNext ==
    \/ /\ \E i \in Identifiers, o \in Outcomes : is_allowed(i, o)
       /\ UNCHANGED <<ctxVars, clsVars, extVars, engVars, memVars>>
    \/ /\ \E i \in Identifiers, o \in Outcomes : get_remaining_requests(i, o)
       /\ UNCHANGED <<ctxVars, clsVars, extVars, engVars, memVars>>
    \/ /\ Tick
       /\ UNCHANGED <<clsVars, extVars, engVars, appVars>>

\* one rate limiter, in memory or on Redis, and the clock
SpecLimiter == LimiterInit /\ [][LimiterNext]_vars

----------------------------------------------------------------------------
(* Claims about the RateLimiter, checked under SpecLimiter *)

\* how many of the requests allowed to the identifier lie in [from, to]
GrantedWithin(log, from, to) ==
    Cardinality({i \in DOMAIN log : from <= log[i] /\ log[i] <= to})

\* C22: the in-memory limiter allows a request exactly when fewer than
\* max_requests of the requests it allowed to the identifier are no older
\* than now - time_window, so a denied identifier is allowed again as soon as
\* that is the case, and no span of length time_window ever holds more than
\* max_requests allowed requests of one identifier.
C22_SlidingWindow ==
    [][\A id \in Identifiers :
          (Call("is_allowed", id) /\ ~redis_client) =>
              /\ last'.res =
                    (GrantedWithin(GrantedTo(id), now - time_window, now) < max_requests)
              /\ \A from \in 0..now :
                    GrantedWithin(granted'[id], from, from + time_window)
                        <= max_requests]_vars

\* C22 witness: the identifier has been allowed max_requests requests, the
\* first of them has just left the window, and the request is allowed
C22_Witness ==
    /\ last.op = "is_allowed" /\ last.res = TRUE /\ ~redis_client
    /\ Len(GrantedTo(last.user)) = max_requests + 1
    /\ GrantedTo(last.user)[1] = now - time_window - 1
    /\ Len(DequeOf(last.user)) = max_requests

C30_RemainingAgreesWithIsAllowed ==
    [][\A id \in Identifiers :
          (Call("get_remaining_requests", id) /\ ~redis_client) =>
              ((last'.res > 0) = IsAllowedMemory(DequeOf(id), now).allowed)]_vars

----------------------------------------------------------------------------
(* The two implementations of is_allowed, fed the same requests *)

\* One request, with one timestamp, handed to _is_allowed_memory and to
\* _is_allowed_redis of a limiter whose Redis answers every round trip
replay(identifier) ==
    LET m == IsAllowedMemory(DequeOf(identifier), now)
        r == IsAllowedRedis(MembersOf(identifier), now, "ok")
    IN  /\ requests' = Put(requests, identifier, m.requests)
        /\ zset' = Put(zset, identifier, [members |-> r.members, expires |-> r.expires])
        /\ last' = [op |-> "replay", user |-> identifier, args |-> << >>,
                    res |-> [memory |-> m.allowed, redis |-> r.allowed]]
        /\ UNCHANGED <<max_requests, time_window, use_redis, redis_client, granted>>

ReplayInit == LimiterInit /\ redis_client = TRUE

ReplayNext ==
    \/ /\ \E i \in Identifiers : replay(i)
       /\ UNCHANGED <<ctxVars, clsVars, extVars, engVars, memVars>>
    \/ /\ Tick
       /\ UNCHANGED <<clsVars, extVars, engVars, appVars>>

\* the same timestamped requests given to both implementations
SpecReplay == ReplayInit /\ [][ReplayNext]_vars

\* C29: for the same sequence of timestamped requests of an identifier, the
\* in-memory and the Redis-backed is_allowed return the same decision for
\* every request.
C29_SameDecisions ==
    last.op = "replay" => last.res.memory = last.res.redis

----------------------------------------------------------------------------
(* The chat endpoint: rate limit, safety filter, NLP, memory sinks *)

\* the most messages the short-term store is let hold; the long-term store
\* is let hold a row for every two of them
MaxStored == 2

\* settings.safety_filter_enabled and settings.long_term_memory_enabled, as
\* configured
safety_filter_enabled == TRUE
long_term_memory_enabled == TRUE

\* the messages sent: "hi", "Hate", "spam", "spams"
ChatTexts ==
    {<<"h", "i">>, <<"H", "a", "t", "e">>,
     <<"s", "p", "a", "m">>, <<"s", "p", "a", "m", "s">>}

\* the session ids of the requests; "None" has the endpoint generate one
SessionIds == {"s1"}

\* str.lower() on the letters of ChatTexts
LowerChat(str) == [i \in DOMAIN str |-> IF str[i] = "H" THEN "h" ELSE Lower(str[i])]

\* _load_toxic_keywords, lines 38-43
ToxicKeywords ==
    {<<"a", "b", "u", "s", "e">>, <<"t", "h", "r", "e", "a", "t">>,
     <<"v", "i", "o", "l", "e", "n", "c", "e">>, <<"h", "a", "t", "e">>}

\* _load_blocked_patterns, lines 24-29: the words a blocked pattern matches
\* between two word boundaries. "credit card number" and "social security"
\* are longer than any text of the model.
BlockedWords == {<<"s", "p", "a", "m">>, <<"s", "c", "a", "m">>, <<"s", "s", "n">>}

\* pattern.search(text) for r'\b(?:word)\b' with re.IGNORECASE
SearchWord(word, text) ==
    \E i \in 1..(Len(text) - Len(word) + 1) :
        /\ SubSeq(LowerChat(text), i, i + Len(word) - 1) = word
        /\ Boundary(text, i)
        /\ Boundary(text, i + Len(word))

\* SafetyFilter.is_safe, lines 54-67
IsSafe(text) ==
    /\ \A w \in BlockedWords : ~SearchWord(w, text)
    /\ \A k \in ToxicKeywords : ~Contains(LowerChat(text), k)

\* SafetyFilter.filter_content, lines 78-95; no text of the model holds an
\* e-mail address, a phone number or a sensitive keyword, so flags is empty
FilterContent(text) ==
    [is_safe |-> IsSafe(text),
     original_text |-> text,
     filtered_text |-> IF IsSafe(text) THEN text ELSE "[Content filtered]",
     flags |-> << >>]

\* the gate of lines 109-124 without the safety check
GateWithoutSafety(allowed, filter_result) ==
    IF ~allowed THEN 429 ELSE 200

\* lines 109-124: the status the two checks leave the request with
Gate(allowed, filter_result) ==
    IF ~allowed THEN 429
    ELSE IF safety_filter_enabled /\ ~filter_result.is_safe THEN 400
    ELSE 200

\* app.nlp IntentClassifier.classify with no model loaded: _rule_based_classify,
\* lines 121-148. Of the word lists only the greetings occur in a text of the
\* model; the confidence is in hundredths.
RuleBasedClassify(text) ==
    IF \E w \in {<<"h", "e", "l", "l", "o">>, <<"h", "i">>, <<"h", "e", "y">>} :
           Contains(LowerChat(text), w)
    THEN [intent |-> "greeting", confidence |-> 85]
    ELSE [intent |-> "unknown", confidence |-> 50]

\* app.nlp EntityExtractor.extract with no model loaded: the texts of the
\* model hold no e-mail address, phone number or other entity
RuleBasedExtract(text) == << >>

\* the templates random.choice picks from
TemplateChoices == {1, 2}

\* DialogueManager.generate_response, lines 100-123: the template picked for
\* the intent ("unknown" for an intent without templates)
GenerateResponse(intent, confidence, entities, pick) ==
    [response |-> [template |-> intent, choice |-> pick],
     confidence |-> confidence,
     metadata |-> [intent |-> intent, entity_count |-> Len(entities)]]

\* store_message that pushes the message again when the first rpush raised
StoreMessageRetried(list, session_id, user_id, message, role, outcome) ==
    IF stm_initialized
    THEN Append(list, [session_id |-> session_id, user_id |-> user_id,
                       content |-> message, role |-> role])
    ELSE list

\* ShortTermMemory.store_message, lines 58-82: nothing is stored when the
\* memory is not initialized or the rpush raises; the exception is logged
StoreMessage(list, session_id, user_id, message, role, outcome) ==
    IF stm_initialized /\ outcome # "down"
    THEN Append(list, [session_id |-> session_id, user_id |-> user_id,
                       content |-> message, role |-> role])
    ELSE list

\* LongTermMemory.store_conversation, lines 79-103: initialize() is tried again
\* while the database is not initialized; the row is lost when the commit raises
StoreConversation(rows, ready, session_id, user_id, message, intent_result, response, outcome) ==
    IF ready /\ outcome # "down"
    THEN Append(rows, [session_id |-> session_id, user_id |-> user_id,
                       message |-> message, intent |-> intent_result.intent,
                       confidence |-> intent_result.confidence,
                       response |-> response])
    ELSE rows

\* the component calls of a request that passes both checks, in order
FullPipeline ==
    <<"is_allowed", "filter_content", "classify", "extract", "get_conversation",
      "generate_response", "store_message", "store_message", "store_conversation">>

\* the startup of the service: get_rate_limiter() builds an in-memory limiter
\* from the settings, the two memories are initialized, each with success or
\* not. The requests of a behaviour fall within one window, whose length
\* plays no part.
ChatInit ==
    /\ max_requests \in 1..MaxRequests
    /\ time_window = MaxWindow
    /\ use_redis = FALSE
    /\ redis_client = FALSE
    /\ requests = EmptyMap
    /\ zset = EmptyMap
    /\ granted = EmptyMap
    /\ stm_initialized \in BOOLEAN
    /\ short_term = << >>
    /\ ltm_initialized \in BOOLEAN
    /\ long_term = << >>
    /\ steps = << >>
    /\ last = [op |-> "init", user |-> "-", args |-> << >>, res |-> "None"]
    /\ CtxIdle /\ ClsIdle /\ ExtIdle /\ EngIdle

\* chat, lines 103-204. faults are the outcomes of the two store_message
\* round trips and of the commit, init_ok the outcome of a new attempt to
\* initialize the database.
chat(message, identifier, session, pick, faults, init_ok) ==
    LET m == IsAllowedMemory(DequeOf(identifier), now)
        filter_result == FilterContent(message)
        status == Gate(m.allowed, filter_result)
        session_id == IF session = "None" THEN "uuid4" ELSE session
        intent_result == RuleBasedClassify(message)
        entities == RuleBasedExtract(message)
        response_data == GenerateResponse(intent_result.intent, intent_result.confidence,
                                          entities, pick)
        stored1 == StoreMessage(short_term, session_id, identifier, message,
                                "user", faults[1])
        stored2 == StoreMessage(stored1, session_id, identifier,
                                response_data.response, "assistant", faults[2])
        ready == ltm_initialized \/ init_ok
        row == StoreConversation(long_term, ready, session_id, identifier, message,
                                 intent_result, response_data.response, faults[3])
    IN  /\ status = 200 => (Len(stored2) <= MaxStored /\ 2 * Len(row) <= MaxStored)
        /\ status # 200 => (pick = 1 /\ faults = <<"ok", "ok", "ok">> /\ init_ok)
        /\ stm_initialized \/ (faults[1] = "ok" /\ faults[2] = "ok")
        /\ ready \/ faults[3] = "ok"
        /\ ltm_initialized => init_ok
        /\ requests' = Put(requests, identifier, m.requests)
        /\ granted' = IF m.allowed
                      THEN Put(granted, identifier, Append(GrantedTo(identifier), now))
                      ELSE granted
        /\ short_term' = IF status = 200 THEN stored2 ELSE short_term
        /\ ltm_initialized' = IF status = 200 /\ long_term_memory_enabled
                              THEN ready ELSE ltm_initialized
        /\ long_term' = IF status = 200 /\ long_term_memory_enabled
                        THEN row ELSE long_term
        /\ steps' = IF status = 429 THEN <<"is_allowed">>
                    ELSE IF status = 400 THEN <<"is_allowed", "filter_content">>
                    ELSE FullPipeline
        /\ last' = [op |-> "chat", user |-> identifier,
                    args |-> <<message, session, faults>>,
                    res |-> IF status = 200
                            THEN [status |-> status,
                                  response |-> response_data.response,
                                  intent |-> intent_result.intent,
                                  confidence |-> intent_result.confidence,
                                  entities |-> entities,
                                  session_id |-> session_id]
                            ELSE [status |-> status]]
        /\ UNCHANGED <<max_requests, time_window, use_redis, redis_client, zset,
                       stm_initialized>>

\* the outcomes of the three writes of a request: none fails, the first
\* store_message fails, the second and the commit fail, all fail
SinkFaults ==
    {<<"ok", "ok", "ok">>, <<"down", "ok", "ok">>,
     <<"ok", "down", "down">>, <<"down", "down", "down">>}

ChatNext ==
    /\ \E message \in ChatTexts, i \in Identifiers, session \in SessionIds,
          pick \in TemplateChoices, faults \in SinkFaults, init_ok \in BOOLEAN :
              chat(message, i, session, pick, faults, init_ok)
    /\ UNCHANGED <<ctxVars, clsVars, extVars, engVars>>

\* the chat service, its requests handled one after the other within one
\* rate-limit window
SpecChat == ChatInit /\ [][ChatNext]_vars


\* the component calls a rejected request never reaches
PipelineCalls ==
    {"classify", "extract", "get_conversation", "generate_response",
     "store_message", "store_conversation"}

\* C21: a chat request the rate limiter denies or the safety filter finds
\* unsafe is answered with an error (429 or 400) that carries no intent,
\* entities or response; it calls neither the classifier, the extractor nor
\* the dialogue manager, and both memories are as they were before it.
C21_RejectedRequestDoesNothing ==
    [][\A i \in Identifiers :
          (/\ Call("chat", i)
           /\ \/ ~IsAllowedMemory(DequeOf(i), now).allowed
              \/ ~IsSafe(last'.args[1]))
          => /\ last'.res.status =
                    (IF ~IsAllowedMemory(DequeOf(i), now).allowed THEN 429 ELSE 400)
             /\ DOMAIN last'.res = {"status"}
             /\ \A k \in 1..Len(steps') : steps'[k] \notin PipelineCalls
             /\ short_term' = short_term
             /\ long_term' = long_term
             /\ ltm_initialized' = ltm_initialized]_vars

\* an unsafe message was refused after a turn had been stored in both memories
C21_Witness ==
    /\ last.op = "chat"
    /\ last.res.status = 400
    /\ ~IsSafe(last.args[1])
    /\ steps = <<"is_allowed", "filter_content">>
    /\ short_term # << >>
    /\ long_term # << >>

\* the number of the first two writes of a request that did not fail
StoredMessages(faults) ==
    (IF faults[1] = "ok" THEN 1 ELSE 0) + (IF faults[2] = "ok" THEN 1 ELSE 0)

\* C24: a request that passes both checks is answered with status 200 and with
\* the intent, the entities and a response computed from its message, whatever
\* the outcome of the three writes; each sink is called once, a write that
\* fails stores nothing and a write that succeeds stores one message or row.
C24_SinkFailureLeavesResponse ==
    [][\A i \in Identifiers :
          (/\ Call("chat", i)
           /\ IsAllowedMemory(DequeOf(i), now).allowed
           /\ IsSafe(last'.args[1]))
          => LET message == last'.args[1]
                 faults == last'.args[3]
                 intent_result == RuleBasedClassify(message)
             IN  /\ last'.res.status = 200
                 /\ last'.res.intent = intent_result.intent
                 /\ last'.res.confidence = intent_result.confidence
                 /\ last'.res.entities = RuleBasedExtract(message)
                 /\ \E pick \in TemplateChoices :
                        last'.res.response =
                            GenerateResponse(intent_result.intent,
                                             intent_result.confidence,
                                             RuleBasedExtract(message), pick).response
                 /\ steps' = FullPipeline
                 /\ Len(short_term') = Len(short_term)
                        + (IF stm_initialized THEN StoredMessages(faults) ELSE 0)
                 /\ SubSeq(short_term', 1, Len(short_term)) = short_term
                 /\ Len(long_term') = Len(long_term)
                        + (IF ltm_initialized' /\ faults[3] = "ok" THEN 1 ELSE 0)
                 /\ SubSeq(long_term', 1, Len(long_term)) = long_term]_vars

\* a request was answered although all three writes of its turn failed, after
\* a turn that was stored
C24_Witness ==
    /\ last.op = "chat"
    /\ last.res.status = 200
    /\ last.args[3] = <<"down", "down", "down">>
    /\ stm_initialized
    /\ ltm_initialized
    /\ Len(short_term) = 2
    /\ Len(long_term) = 1

====
